---- MODULE Spec2Model ----
(***************************************************************************)
(* Verification model of zniff-rs: the Zniffer serial frame parser         *)
(* (crates/core/src/zniffer_parser.rs), the PTI/DCH stream parser          *)
(* (src/pti_parser.rs), the PTI re-emitter (src/types.rs), the capture     *)
(* file readers (zlf), the run command with its broadcast channel and      *)
(* serial pump (src/main.rs, src/zniffer_parser.rs), the frame database    *)
(* (crates/core/src/storage) and the frame decoders.                       *)
(* Bytes are naturals in 0..255; byte vectors are sequences.               *)
(***************************************************************************)
EXTENDS Integers, Sequences, FiniteSets, TLC

VARIABLES
  parser,    \* zniffer_parser::Parser, the struct's fields as a record
  result,    \* value returned by the last call on `parser` (kind "None": no parse call / timeout())
  fed,       \* history: bytes fed since the parser was last Idle (kept over a timeout until the next byte)
  outs,      \* history: kinds of the results returned for the bytes of `fed`
  ref,       \* batch comparison: a second Parser fed one byte per call
  outB,      \* batch comparison: non-Incomplete results of parse_bytes, in order
  outR,      \* batch comparison: non-Incomplete results of parse on `ref`, in order
  calls,     \* number of parse_bytes calls made (PTI stream: of PtiParser::parse calls, counted up to CallCap)
  buffer,    \* PtiParser.buffer
  frames,    \* history: the frames returned by the PtiParser::parse calls so far, in order
  crashed,   \* a PtiParser::parse call panicked
  sent,     \* the byte stream a PTI peer sends: garbage g, then an envelope e
  pos,       \* number of bytes of the stream fed to PtiParser::parse so far
  wasReset,  \* PtiParser::reset was called during the run
  rtFrame,   \* round trip: the Frame handed to Frame::to_pti_vector
  rtStage,   \* round trip: "none", "ingested", "emitted", "reparsed"
  arg,       \* the input of the function called (record, field fn names it); for the capture reader, the file
  ret,       \* the value the last call returned (kind "None": no call yet)
  zlf,       \* zlf::ZlfReader: whether it exists, the position of r in the file, frame_counter
  zniffer,   \* run(): how far it got, the write_all calls made on the serial port, the pump task
  tail,      \* broadcast channel: number of frames sent on it so far
  clients,   \* per connection: the peer's side of the socket and the handle_client task with its Receiver
  db,        \* storage::SqliteFrameDatabase: the rows of table frames; history: the frames passed to add_frame
  library,   \* decoder::DecoderLibrary: the names under which a decoder is registered
  port,      \* the serial port read by the pump: bytes read since the last timeout, frames returned (history)
  app        \* the terminal viewer's App: the length of items, state.selected(), mode; whether a key handler panicked

znVars == <<parser, result, fed, outs>>
batchVars == <<ref, outB, outR, calls>>
ptiVars == <<buffer, frames, crashed, sent, pos, wasReset>>
rtVars == <<rtFrame, rtStage>>
fnVars == <<arg, ret, zlf>>
runVars == <<zniffer, tail, clients>>
libVars == <<db, library, port, app>>
vars == <<parser, result, fed, outs, ref, outB, outR, calls,
          buffer, frames, crashed, sent, pos, wasReset, rtFrame, rtStage,
          arg, ret, zlf, zniffer, tail, clients, db, library, port, app>>

-----------------------------------------------------------------------------
(* Bounds of the model *)

\* largest length byte fed to the Zniffer parser while it awaits a length
MaxLength == 3
\* longest chunk handed to parse_bytes in one call
MaxChunk == 4
\* number of parse_bytes calls in a run of the batch comparison
MaxCalls == 2
\* longest over-the-air payload of the PTI envelopes fed
MaxOta == 2
\* PtiParser::parse calls are counted up to this number
CallCap == 2

\* Input bytes of the Zniffer parser: 0x00, 0x01, 0x03, 0x21, 0x23.
\* 0x21 and 0x23 are the two start-of-frame symbols, 0x03 the second
\* start-of-data byte; 1 is a valid type, command id and region, 3 a valid
\* command id and region but no frame type, 0 neither type nor command id,
\* 0x23 no region.
ByteSet == {0, 1, 3, 33, 35}

-----------------------------------------------------------------------------
(* Bit operations on unsigned integers *)

RECURSIVE BitAnd(_, _)
BitAnd(a, b) ==
  IF a = 0 \/ b = 0 THEN 0
  ELSE (IF a % 2 = 1 /\ b % 2 = 1 THEN 1 ELSE 0) + 2 * BitAnd(a \div 2, b \div 2)

RECURSIVE BitOr(_, _)
BitOr(a, b) ==
  IF a = 0 THEN b
  ELSE IF b = 0 THEN a
  ELSE (IF a % 2 = 1 \/ b % 2 = 1 THEN 1 ELSE 0) + 2 * BitOr(a \div 2, b \div 2)

-----------------------------------------------------------------------------
(* types.rs *)

Regions == {"EU", "US", "ANZ", "HK", "IN", "IL", "RU", "CN", "USLR", "EULR", "JP", "KR"}

\* impl TryFrom<u8> for Region; "Err" stands for Err(ParseRegionError)
RegionTryFrom(value) ==
  CASE value = 0 -> "EU"
    [] value = 1 -> "US"
    [] value = 2 -> "ANZ"
    [] value = 3 -> "HK"
    [] value = 5 -> "IN"
    [] value = 6 -> "IL"
    [] value = 7 -> "RU"
    [] value = 8 -> "CN"
    [] value = 9 -> "USLR"
    [] value = 11 -> "EULR"
    [] value = 32 -> "JP"
    [] value = 33 -> "KR"
    [] OTHER -> "Err"

\* Frame::default()
FrameDefault ==
  [region |-> "EU", channel |-> 0, speed |-> 0, timestamp |-> 0, rssi |-> 0,
   payload |-> <<>>]

\* impl From<Region> for PtiRegion, then `as u8`
PtiRegionFrom(region) ==
  CASE region = "EU" -> 1
    [] region = "US" -> 2
    [] region = "ANZ" -> 3
    [] region = "HK" -> 4
    [] region = "IN" -> 5
    [] region = "IL" -> 9
    [] region = "RU" -> 8
    [] region = "CN" -> 11
    [] region = "USLR" -> 12
    [] region = "EULR" -> 15
    [] region = "JP" -> 7
    [] region = "KR" -> 10

\* Frame::to_pti_vector(&mut self) -> Result<Vec<u8>, bool>; always Ok(buffer)
to_pti_vector(self) ==
  <<91, (15 + Len(self.payload) + 7 - 2) % 256, 0, 2, 0,
    82, 110, 125, 80, 18, 0, 42, 0, 135, 248>>
  \o self.payload
  \o <<249, self.rssi, PtiRegionFrom(self.region), self.channel, 6, 81, 93>>

-----------------------------------------------------------------------------
(* zniffer_parser.rs *)

SOF_COMMAND == 35
SOF_FRAME == 33

IncompleteFrame == [kind |-> "IncompleteFrame"]
InvalidFrame == [kind |-> "InvalidFrame"]
ValidCommand(id, payload) == [kind |-> "ValidCommand", id |-> id, payload |-> payload]
ValidFrame(frame) == [kind |-> "ValidFrame", frame |-> frame]
\* no value of ParserResult: nothing parsed yet, or timeout() returned ()
NoResult == [kind |-> "None"]

\* Parser::new()
new ==
  [state |-> "AwaitStartOfFrame", command_id |-> 0, length |-> 0,
   payload_count |-> 0, frame_type |-> 0, timestamp_state |-> FALSE, rssi |-> 0,
   frame |-> FrameDefault]

\* reset() that forgets to clear frame_type
reset_KeepsFrameType(p) ==
  [p EXCEPT !.state = "AwaitStartOfFrame", !.command_id = 0, !.length = 0,
            !.payload_count = 0, !.timestamp_state = FALSE,
            !.rssi = 0, !.frame = FrameDefault]

\* Parser::reset(&mut self)
reset(p) ==
  [p EXCEPT !.state = "AwaitStartOfFrame", !.command_id = 0, !.length = 0,
            !.payload_count = 0, !.frame_type = 0, !.timestamp_state = FALSE,
            !.rssi = 0, !.frame = FrameDefault]

\* the value a call of parse leaves: the parser and the result returned
Ret(p, r) == [parser |-> p, result |-> r]

IsCommandId(v) == v \in {1, 2, 3, 19, 4, 5, 14}
IsFrameType(v) == v \in {1, 2, 4, 5}

AwaitStartOfFrame(p, value) ==
  IF value = SOF_COMMAND THEN Ret([p EXCEPT !.state = "AwaitCommandID"], IncompleteFrame)
  ELSE IF value = SOF_FRAME THEN Ret([p EXCEPT !.state = "AwaitType"], IncompleteFrame)
  ELSE Ret(p, IncompleteFrame)

AwaitCommandID(p, value) ==
  LET q == [p EXCEPT !.command_id = value] IN
  IF IsCommandId(q.command_id)
  THEN Ret([q EXCEPT !.state = "AwaitLength"], IncompleteFrame)
  ELSE Ret(reset(q), InvalidFrame)

\* AwaitType without the check of the frame type
AwaitType_AcceptsAll(p, value) ==
  Ret([p EXCEPT !.frame_type = value, !.state = "AwaitTimestamp"], [kind |-> "IncompleteFrame"])

AwaitType(p, value) ==
  IF IsFrameType(value)
  THEN Ret([p EXCEPT !.frame_type = value, !.state = "AwaitTimestamp"], IncompleteFrame)
  ELSE Ret(reset(p), InvalidFrame)

\* AwaitTimestamp assigning the low byte instead of or-ing it in
AwaitTimestamp_Overwrites(p, value) ==
  IF p.timestamp_state = FALSE
  THEN Ret([p EXCEPT !.frame.timestamp = (value * 256) % 65536,
                     !.timestamp_state = TRUE], [kind |-> "IncompleteFrame"])
  ELSE Ret([p EXCEPT !.frame.timestamp = value,
                     !.timestamp_state = FALSE,
                     !.state = "AwaitChannelAndSpeed"], [kind |-> "IncompleteFrame"])

AwaitTimestamp(p, value) ==
  IF p.timestamp_state = FALSE
  THEN Ret([p EXCEPT !.frame.timestamp = (value * 256) % 65536,
                     !.timestamp_state = TRUE], IncompleteFrame)
  ELSE Ret([p EXCEPT !.frame.timestamp = BitOr(p.frame.timestamp, value),
                     !.timestamp_state = FALSE,
                     !.state = "AwaitChannelAndSpeed"], IncompleteFrame)

AwaitChannelAndSpeed(p, value) ==
  Ret([p EXCEPT !.frame.channel = value \div 32,
                !.frame.speed = BitAnd(value, 31),
                !.state = "AwaitRegion"], IncompleteFrame)

AwaitRegion(p, value) ==
  IF RegionTryFrom(value) # "Err"
  THEN Ret([p EXCEPT !.frame.region = RegionTryFrom(value), !.state = "AwaitRssi"],
           IncompleteFrame)
  ELSE Ret(reset(p), InvalidFrame)

AwaitRssi(p, value) ==
  Ret([p EXCEPT !.frame.rssi = value, !.state = "AwaitStartofDataOne"], IncompleteFrame)

AwaitStartofDataOne(p, value) ==
  IF value = 33
  THEN Ret([p EXCEPT !.state = "AwaitStartofDataTwo"], IncompleteFrame)
  ELSE Ret(reset(p), InvalidFrame)

AwaitStartofDataTwo(p, value) ==
  IF value = 3
  THEN Ret([p EXCEPT !.state = "AwaitLength"], IncompleteFrame)
  ELSE Ret(reset(p), InvalidFrame)

AwaitLength(p, value) ==
  LET q == [p EXCEPT !.length = value, !.payload_count = value] IN
  IF q.length = 0
  THEN Ret(reset(q), ValidCommand(q.command_id, <<>>))
  ELSE Ret([q EXCEPT !.state = "AwaitPayload"], IncompleteFrame)

\* (changed) AwaitPayload that keeps the frame it has just returned
AwaitPayload_KeepsFrame(p, value) ==
  LET q == [p EXCEPT !.frame.payload = Append(p.frame.payload, value),
                     !.payload_count = (p.payload_count - 1) % 256] IN
  IF q.payload_count < 1
  THEN IF IsFrameType(q.frame_type)
       THEN Ret([reset(q) EXCEPT !.frame = q.frame], [kind |-> "ValidFrame", frame |-> q.frame])
       ELSE Ret([reset(q) EXCEPT !.frame = q.frame],
                [kind |-> "ValidCommand", id |-> q.command_id, payload |-> q.frame.payload])
  ELSE Ret(q, [kind |-> "IncompleteFrame"])

AwaitPayload(p, value) ==
  LET q == [p EXCEPT !.frame.payload = Append(p.frame.payload, value),
                     \* u8 subtraction; payload_count >= 1 whenever this state is entered
                     !.payload_count = (p.payload_count - 1) % 256] IN
  IF q.payload_count < 1
  THEN IF IsFrameType(q.frame_type)
       THEN Ret(reset(q), ValidFrame(q.frame))
       ELSE Ret(reset(q), ValidCommand(q.command_id, q.frame.payload))
  ELSE Ret(q, IncompleteFrame)

\* Parser::parse(&mut self, value: u8) -> ParserResult
parse(p, value) ==
  CASE p.state = "AwaitStartOfFrame" -> AwaitStartOfFrame(p, value)
    [] p.state = "AwaitCommandID" -> AwaitCommandID(p, value)
    [] p.state = "AwaitType" -> AwaitType(p, value)
    [] p.state = "AwaitTimestamp" -> AwaitTimestamp(p, value)
    [] p.state = "AwaitChannelAndSpeed" -> AwaitChannelAndSpeed(p, value)
    [] p.state = "AwaitRegion" -> AwaitRegion(p, value)
    [] p.state = "AwaitRssi" -> AwaitRssi(p, value)
    [] p.state = "AwaitStartofDataOne" -> AwaitStartofDataOne(p, value)
    [] p.state = "AwaitStartofDataTwo" -> AwaitStartofDataTwo(p, value)
    [] p.state = "AwaitLength" -> AwaitLength(p, value)
    [] p.state = "AwaitPayload" -> AwaitPayload(p, value)

\* Parser::parse_bytes(&mut self, input: Vec<u8>) -> ParserResult:
\* returns at the first result that is not IncompleteFrame; the rest of
\* `input`, moved into the call, is dropped with it.
RECURSIVE parse_bytes(_, _)
parse_bytes(p, input) ==
  IF input = <<>> THEN Ret(p, IncompleteFrame)
  ELSE LET o == parse(p, Head(input)) IN
       IF o.result # IncompleteFrame THEN o
       ELSE parse_bytes(o.parser, Tail(input))

\* timeout() that resets the state but keeps the frame under construction
timeout_KeepsFrame(p) == [reset(p) EXCEPT !.frame = p.frame]

\* Parser::timeout(&mut self)
timeout(p) == reset(p)

-----------------------------------------------------------------------------
(* pti_parser.rs *)

DCH_START_SYMBOL == 91
DCH_END_SYMBOL == 93
HW_RX_START == 248
HW_TX_START == 252
HW_RX_SUCCESS == 249
HW_TX_SUCCESS == 253
PTI_PROTOCOL_ZWAVE == 6

\* data[i] with the source's 0-based index
At(data, i) == data[i + 1]

\* data[a..b] with the source's 0-based, end-exclusive range
Slice(data, a, b) == SubSeq(data, a + 1, b)

\* u16::from_le_bytes([lo, hi])
from_le_bytes(lo, hi) == lo + 256 * hi

\* a table with the codes of IL and RU exchanged
pti_region_to_region_Swapped(pti_region) ==
  CASE pti_region = 1 -> "EU"
    [] pti_region = 2 -> "US"
    [] pti_region = 3 -> "ANZ"
    [] pti_region = 4 -> "HK"
    [] pti_region = 5 -> "IN"
    [] pti_region = 8 -> "IL"
    [] pti_region = 9 -> "RU"
    [] pti_region = 11 -> "CN"
    [] pti_region = 12 -> "USLR"
    [] pti_region = 15 -> "EULR"
    [] pti_region = 7 -> "JP"
    [] pti_region = 10 -> "KR"
    [] OTHER -> "None"

\* fn pti_region_to_region(pti_region: u8) -> Option<Region>
pti_region_to_region(pti_region) ==
  CASE pti_region = 1 -> "EU"
    [] pti_region = 2 -> "US"
    [] pti_region = 3 -> "ANZ"
    [] pti_region = 4 -> "HK"
    [] pti_region = 5 -> "IN"
    [] pti_region = 9 -> "IL"
    [] pti_region = 8 -> "RU"
    [] pti_region = 11 -> "CN"
    [] pti_region = 12 -> "USLR"
    [] pti_region = 15 -> "EULR"
    [] pti_region = 7 -> "JP"
    [] pti_region = 10 -> "KR"
    [] OTHER -> "None"

lr_speeds == {771, 3, 259}
baud_9600 == {513, 514, 515, 516, 517, 518, 520, 521, 523, 524, 525, 527, 528}
baud_40k == {257, 258, 259, 260, 261, 262, 264, 265, 267, 268, 269, 271, 272}
baud_100k == {1, 2, 3, 4, 5, 6, 7, 263, 519, 8, 9, 10, 266, 522, 11, 12, 13, 15, 16}

\* fn get_speed(channel: u8, region: u8) -> u8
get_speed(channel, region) ==
  LET key == BitOr(channel * 256, region) IN
  IF key \in baud_9600 THEN 0
  ELSE IF key \in baud_40k THEN 1
  ELSE IF key \in baud_100k THEN 2
  ELSE IF key \in lr_speeds THEN 3
  ELSE 0

PtiValidFrame(frame) == [kind |-> "ValidFrame", frame |-> frame]
PtiInvalidFrame == [kind |-> "InvalidFrame"]
PtiIncompleteFrame == [kind |-> "IncompleteFrame"]
\* the call does not return: an index out of range or a usize subtraction
\* below zero panics (in a build without overflow checks the wrapped index
\* is out of range, so the panic is the outcome of every build)
PtiPanic == [kind |-> "Panic"]

\* `b as i8`
as_i8(b) == IF b >= 128 THEN b - 256 ELSE b

\* i8::saturating_sub
saturating_sub(a, b) ==
  IF a - b < -128 THEN -128 ELSE IF a - b > 127 THEN 127 ELSE a - b

\* i8::unsigned_abs
unsigned_abs(a) == IF a < 0 THEN -a ELSE a

\* an RSSI that is never offset, whatever the appended-info version
rx_rssi_NoOffset(raw, appended_info_cfg) == unsigned_abs(as_i8(raw))

\* the RSSI of an Rx frame from the trailer byte and appended_info_cfg
rx_rssi(raw, appended_info_cfg) ==
  LET rssi_raw == as_i8(raw)
      appended_info_version == BitAnd(appended_info_cfg, 7)
      rssi_value == IF appended_info_version >= 1
                    THEN saturating_sub(rssi_raw, 50)
                    ELSE rssi_raw
  IN unsigned_abs(rssi_value)

\* a protocol test that masks three bits instead of four
is_zwave_Mask7(status_0) == BitAnd(status_0, 7) = PTI_PROTOCOL_ZWAVE

\* protocol_id == PTI_PROTOCOL_ZWAVE, protocol_id the low nibble of STATUS_0
is_zwave(status_0) == BitAnd(status_0, 15) = PTI_PROTOCOL_ZWAVE

\* a beam test that only looks for an empty payload
is_wakeup_beam_EmptyOnly(ota_data) == ota_data = <<>>

\* ota_data.is_empty() || ota_data[0] == 0x55
is_wakeup_beam(ota_data) == ota_data = <<>> \/ ota_data[1] = 85

\* fn parse_pti_frame(data: &[u8]) -> PtiParseResult
parse_pti_frame(data) ==
  IF Len(data) < 6 THEN PtiInvalidFrame
  ELSE
  LET hw_start == At(data, 0)
      n == Len(data)
      appended_info_cfg == At(data, n - 1)
      is_rx == BitAnd(appended_info_cfg, 64) \div 64
      appended_info_length == (BitAnd(appended_info_cfg, 56) \div 8) + 3
      status_0 == At(data, n - 2)
      radio_info == At(data, n - 3)
      channel == BitAnd(radio_info, 63)
      radio_config == At(data, n - 4)
      pti_region == BitAnd(radio_config, 31)
      region == pti_region_to_region(pti_region)
      rssi == IF is_rx = 1 THEN rx_rssi(At(data, n - 5), appended_info_cfg) ELSE 0
      hw_end_pos == n - 1 - appended_info_length
      expected_hw_end == IF is_rx = 1 THEN HW_RX_SUCCESS ELSE HW_TX_SUCCESS
  IN
  IF hw_start # HW_RX_START /\ hw_start # HW_TX_START THEN PtiInvalidFrame
  ELSE IF ~is_zwave(status_0) THEN PtiInvalidFrame
  ELSE IF region = "None" THEN PtiInvalidFrame
  ELSE IF hw_end_pos < 0 THEN PtiPanic
  ELSE IF At(data, hw_end_pos) # expected_hw_end THEN PtiInvalidFrame
  ELSE LET ota_data == Slice(data, 1, hw_end_pos) IN
       IF is_wakeup_beam(ota_data) THEN PtiInvalidFrame
       ELSE PtiValidFrame([region |-> region, channel |-> channel,
                           speed |-> get_speed(channel, pti_region),
                           timestamp |-> 0, rssi |-> rssi, payload |-> ota_data])

\* a parse_dch_frame that does not look at the end symbol
parse_dch_frame_NoEndCheck(data) ==
  IF Len(data) < 6 THEN PtiIncompleteFrame
  ELSE IF At(data, 0) # DCH_START_SYMBOL THEN PtiInvalidFrame
  ELSE
  LET length == from_le_bytes(At(data, 1), At(data, 2))
      end_symbol_index == length + 1
      version == from_le_bytes(At(data, 3), At(data, 4))
      header_size == IF version = 2 THEN 13 ELSE 20
      pti_start == IF version = 2 THEN 14 ELSE 21
  IN
  IF Len(data) < length + 2 THEN PtiIncompleteFrame
  ELSE IF version \notin {2, 3} THEN PtiInvalidFrame
  ELSE IF length <= header_size THEN PtiInvalidFrame
  ELSE parse_pti_frame(Slice(data, pti_start, end_symbol_index))

\* pub fn parse_dch_frame(data: &[u8]) -> PtiParseResult
parse_dch_frame(data) ==
  IF Len(data) < 6 THEN PtiIncompleteFrame
  ELSE IF At(data, 0) # DCH_START_SYMBOL THEN PtiInvalidFrame
  ELSE
  LET length == from_le_bytes(At(data, 1), At(data, 2))
      end_symbol_index == length + 1
      version == from_le_bytes(At(data, 3), At(data, 4))
      header_size == IF version = 2 THEN 13 ELSE 20
      pti_start == IF version = 2 THEN 14 ELSE 21
  IN
  IF Len(data) < length + 2 THEN PtiIncompleteFrame
  ELSE IF At(data, end_symbol_index) # DCH_END_SYMBOL THEN PtiInvalidFrame
  ELSE IF version \notin {2, 3} THEN PtiInvalidFrame
  ELSE IF length <= header_size THEN PtiInvalidFrame
  ELSE parse_pti_frame(Slice(data, pti_start, end_symbol_index))

\* PtiParser::new()
PtiParser_new == <<>>

\* a loop that stops at a byte that is no start symbol instead of skipping it
scan_step_NoSkip(remaining) ==
  IF Len(remaining) < 6 THEN [act |-> "break"]
  ELSE IF At(remaining, 0) # DCH_START_SYMBOL THEN [act |-> "break"]
  ELSE
  LET length == from_le_bytes(At(remaining, 1), At(remaining, 2))
      frame_size == length + 2
  IN
  IF Len(remaining) < frame_size THEN [act |-> "break"]
  ELSE LET r == parse_dch_frame(Slice(remaining, 0, frame_size)) IN
       CASE r.kind = "ValidFrame" -> [act |-> "emit", frame |-> r.frame, size |-> frame_size]
         [] r.kind = "IncompleteFrame" -> [act |-> "break"]
         [] r.kind = "InvalidFrame" -> [act |-> "skip"]
         [] r.kind = "Panic" -> [act |-> "panic"]

\* One turn of the while loop of PtiParser::parse on remaining =
\* buffer[consumed..], remaining not empty: what the loop does next.
scan_step(remaining) ==
  IF Len(remaining) < 6 THEN [act |-> "break"]
  ELSE IF At(remaining, 0) # DCH_START_SYMBOL THEN [act |-> "skip"]
  ELSE
  LET length == from_le_bytes(At(remaining, 1), At(remaining, 2))
      frame_size == length + 2
  IN
  IF Len(remaining) < frame_size THEN [act |-> "break"]
  ELSE LET r == parse_dch_frame(Slice(remaining, 0, frame_size)) IN
       CASE r.kind = "ValidFrame" -> [act |-> "emit", frame |-> r.frame, size |-> frame_size]
         [] r.kind = "IncompleteFrame" -> [act |-> "break"]
         [] r.kind = "InvalidFrame" -> [act |-> "skip"]
         [] r.kind = "Panic" -> [act |-> "panic"]

\* a loop that returns after the first frame it finds
RECURSIVE scan_FirstOnly(_, _, _)
scan_FirstOnly(buf, consumed, found) ==
  IF consumed >= Len(buf) THEN [consumed |-> consumed, frames |-> found, panic |-> FALSE]
  ELSE LET st == scan_step(Slice(buf, consumed, Len(buf))) IN
       CASE st.act = "break" -> [consumed |-> consumed, frames |-> found, panic |-> FALSE]
         [] st.act = "skip" -> scan_FirstOnly(buf, consumed + 1, found)
         [] st.act = "emit" -> [consumed |-> consumed + st.size,
                                frames |-> Append(found, st.frame), panic |-> FALSE]
         [] st.act = "panic" -> [consumed |-> consumed, frames |-> found, panic |-> TRUE]

\* The while loop of PtiParser::parse: consumed and frames when it ends
RECURSIVE scan(_, _, _)
scan(buf, consumed, found) ==
  IF consumed >= Len(buf) THEN [consumed |-> consumed, frames |-> found, panic |-> FALSE]
  ELSE LET st == scan_step(Slice(buf, consumed, Len(buf))) IN
       CASE st.act = "break" -> [consumed |-> consumed, frames |-> found, panic |-> FALSE]
         [] st.act = "skip" -> scan(buf, consumed + 1, found)
         [] st.act = "emit" -> scan(buf, consumed + st.size, Append(found, st.frame))
         [] st.act = "panic" -> [consumed |-> consumed, frames |-> found, panic |-> TRUE]

\* a parse call that forgets what earlier calls left in the buffer
PtiParser_parse_Unbuffered(buf, data) ==
  LET s == scan(data, 0, <<>>) IN
  [buffer |-> Slice(data, s.consumed, Len(data)), frames |-> s.frames, panic |-> s.panic]

\* PtiParser::parse(&mut self, data: &[u8]) -> Vec<Frame>: the buffer after
\* the call and the frames returned (none when the call panics)
PtiParser_parse(buf, data) ==
  LET b == buf \o data
      s == scan(b, 0, <<>>)
  IN [buffer |-> IF s.panic THEN b ELSE Slice(b, s.consumed, Len(b)),
      frames |-> IF s.panic THEN <<>> ELSE s.frames,
      panic |-> s.panic]

\* PtiParser::reset(&mut self)
PtiParser_reset(buf) == <<>>

-----------------------------------------------------------------------------
(* The byte-fed Zniffer parser: one call of parse or timeout per step *)

\* bytes the model feeds to a parser in state p
Feedable(p) ==
  IF p.state = "AwaitLength" THEN {b \in ByteSet : b <= MaxLength} ELSE ByteSet

ZnInit ==
  /\ parser = new
  /\ result = NoResult
  /\ fed = <<>>
  /\ outs = <<>>
  /\ ref = new
  /\ outB = <<>>
  /\ outR = <<>>
  /\ calls = 0

PtiIdle ==
  /\ buffer = PtiParser_new
  /\ frames = <<>>
  /\ crashed = FALSE
  /\ sent = [g |-> <<>>, e |-> <<>>]
  /\ pos = 0
  /\ wasReset = FALSE

RtIdle ==
  /\ rtFrame = FrameDefault
  /\ rtStage = "none"

\* no function under test, no capture reader
FnIdle ==
  /\ arg = [fn |-> "none"]
  /\ ret = NoResult
  /\ zlf = [open |-> FALSE, pos |-> 0, frame_counter |-> 0]

\* run() was not called: no port, no channel, no connection
RunIdle ==
  /\ zniffer = [stage |-> "none"]
  /\ tail = 0
  /\ clients = <<>>

\* no database, no decoder library, no serial port
\* the terminal viewer is not running
NoApp == [running |-> FALSE]

LibIdle ==
  /\ db = [rows |-> <<>>, added |-> <<>>]
  /\ library = {}
  /\ port = [rx |-> <<>>, returned |-> <<>>]
  /\ app = NoApp

Init == ZnInit /\ PtiIdle /\ RtIdle /\ FnIdle /\ RunIdle /\ LibIdle

Feed(b) ==
  /\ b \in Feedable(parser)
  /\ LET o == parse(parser, b)
         fresh == parser.state = "AwaitStartOfFrame" \/ result = NoResult
     IN /\ parser' = o.parser
        /\ result' = o.result
        /\ fed' = IF fresh THEN <<b>> ELSE Append(fed, b)
        /\ outs' = IF fresh THEN <<o.result.kind>> ELSE Append(outs, o.result.kind)
  /\ UNCHANGED <<runVars, libVars, batchVars, ptiVars, rtVars, fnVars>>

Timeout ==
  /\ parser' = timeout(parser)
  /\ result' = NoResult
  /\ UNCHANGED <<runVars, libVars, fed, outs>>
  /\ UNCHANGED <<runVars, libVars, batchVars, ptiVars, rtVars, fnVars>>

Next ==
  \/ \E b \in ByteSet : Feed(b)
  \/ Timeout

Spec == Init /\ [][Next]_vars

-----------------------------------------------------------------------------
(* Batch comparison: each chunk goes once to parse_bytes on `parser`, and   *)
(* byte by byte to parse on `ref`                                           *)

Chunks == UNION {[1..n -> ByteSet] : n \in 1..MaxChunk}

\* the caller that feeds one byte per call of parse and looks at every
\* result: the parser after `input` and the non-Incomplete results appended to acc
RECURSIVE feed_each(_, _, _)
feed_each(p, input, acc) ==
  IF input = <<>> THEN [parser |-> p, results |-> acc]
  ELSE LET o == parse(p, Head(input)) IN
       feed_each(o.parser, Tail(input),
                 IF o.result # IncompleteFrame THEN Append(acc, o.result) ELSE acc)

FeedChunk(c) ==
  /\ calls < MaxCalls
  /\ calls' = calls + 1
  /\ LET o == parse_bytes(parser, c)
         r == feed_each(ref, c, outR)
     IN /\ parser' = o.parser
        /\ result' = o.result
        /\ outB' = IF o.result # IncompleteFrame THEN Append(outB, o.result) ELSE outB
        /\ ref' = r.parser
        /\ outR' = r.results
  /\ UNCHANGED <<runVars, libVars, fed, outs, ptiVars, rtVars, fnVars>>

NextBatch == \E c \in Chunks : FeedChunk(c)

SpecBatch == Init /\ [][NextBatch]_vars

\* C1 (as claimed): the non-Incomplete results of the chunks passed once
\* each to parse_bytes are those of the same bytes fed one at a time.
C1_ByteBoundaryInvariance == outB = outR

-----------------------------------------------------------------------------
(* Wire formats of the serial link, stated on the bytes fed *)

\* #[repr(u8)] enum Region: the native code of each region
NativeCode ==
  [r \in Regions |->
     CASE r = "EU" -> 0 [] r = "US" -> 1 [] r = "ANZ" -> 2 [] r = "HK" -> 3
       [] r = "IN" -> 5 [] r = "IL" -> 6 [] r = "RU" -> 7 [] r = "CN" -> 8
       [] r = "USLR" -> 9 [] r = "EULR" -> 11 [] r = "JP" -> 32 [] r = "KR" -> 33]

KnownNative == {NativeCode[r] : r \in Regions}

\* position i of a data frame (1-based) holds an admissible byte
FrameByteOk(s, i) ==
  CASE i = 1 -> s[i] = 33
    [] i = 2 -> s[i] \in {1, 2, 4, 5}
    [] i = 6 -> s[i] \in KnownNative
    [] i = 8 -> s[i] = 33
    [] i = 9 -> s[i] = 3
    [] OTHER -> TRUE

\* the first k bytes of s are those of a data frame header
FrameHeaderOk(s, k) == Len(s) >= k /\ \A i \in 1..k : FrameByteOk(s, i)

\* s is a whole data frame with a payload of 1..255 bytes
WellFormedFrame(s) == FrameHeaderOk(s, 10) /\ s[10] >= 1 /\ Len(s) = 10 + s[10]

\* s is a data frame cut short
FramePrefix(s) ==
  /\ Len(s) >= 1
  /\ IF Len(s) < 10 THEN FrameHeaderOk(s, Len(s))
     ELSE FrameHeaderOk(s, 10) /\ s[10] >= 1 /\ Len(s) < 10 + s[10]

\* s is a data frame whose length byte is 0
ZeroLengthFrame(s) == FrameHeaderOk(s, 10) /\ Len(s) = 10 /\ s[10] = 0

\* the frame the header bytes s[3..7] and the payload pl describe
FrameOf(s, pl) ==
  [region |-> CHOOSE r \in Regions : NativeCode[r] = s[6],
   channel |-> s[5] \div 32,
   speed |-> s[5] % 32,
   timestamp |-> s[3] * 256 + s[4],
   rssi |-> s[7],
   payload |-> pl]

CommandIds == {1, 2, 3, 4, 5, 14, 19}

\* s is a whole command response: 0x23, id, length n, n payload bytes
WellFormedCommand(s) ==
  Len(s) >= 3 /\ s[1] = 35 /\ s[2] \in CommandIds /\ Len(s) = 3 + s[3]

\* s is a command response cut short
CommandPrefix(s) ==
  /\ Len(s) >= 1 /\ s[1] = 35
  /\ Len(s) >= 2 => s[2] \in CommandIds
  /\ Len(s) >= 3 => Len(s) < 3 + s[3]

\* the last byte of s is one the parser has to reject
InvalidCase(s) ==
  \/ Len(s) = 2 /\ s[1] = 35 /\ s[2] \notin CommandIds
  \/ Len(s) = 2 /\ s[1] = 33 /\ s[2] \notin {1, 2, 4, 5}
  \/ Len(s) = 6 /\ FrameHeaderOk(s, 5) /\ s[6] \notin KnownNative
  \/ Len(s) = 8 /\ FrameHeaderOk(s, 7) /\ s[8] # 33
  \/ Len(s) = 9 /\ FrameHeaderOk(s, 8) /\ s[9] # 3

AllIncompleteBeforeLast ==
  /\ Len(outs) = Len(fed)
  /\ \A i \in 1..(Len(outs) - 1) : outs[i] = "IncompleteFrame"

\* the last n elements of s
Suffix(s, n) == SubSeq(s, Len(s) - n + 1, Len(s))

-----------------------------------------------------------------------------
(* Claims on the byte-fed Zniffer parser *)

\* C2: from Idle, a well-formed data frame (payload of n >= 1 bytes) returns
\* IncompleteFrame for every byte but the last and ValidFrame on the last,
\* with timestamp (hi<<8)|lo, channel b>>5, speed b&0x1F, the region of the
\* native code, the RSSI byte and the n payload bytes in arrival order.
C2_DataFrame ==
  result # NoResult =>
    /\ FramePrefix(fed) => result = IncompleteFrame
    /\ WellFormedFrame(fed) =>
         /\ result = ValidFrame(FrameOf(fed, SubSeq(fed, 11, Len(fed))))
         /\ AllIncompleteBeforeLast

C2_Witness ==
  /\ WellFormedFrame(fed)
  /\ Len(fed) = 13
  /\ result.kind = "ValidFrame"
  /\ result.frame.payload = <<1, 0, 35>>
  /\ result.frame.timestamp = 33 * 256 + 3

\* C3 (as claimed): a data frame whose length byte is 0 yields a ValidFrame
\* with an empty payload and the header's fields, and the parser is Idle.
C3_ZeroLengthFrame ==
  (result # NoResult /\ ZeroLengthFrame(fed)) =>
    /\ result = ValidFrame(FrameOf(fed, <<>>))
    /\ parser.state = "AwaitStartOfFrame"

\* C4: from Idle, 0x23, a command id of {1,2,3,4,5,14,19}, a length n and n
\* payload bytes yield exactly one ValidCommand with that id and those
\* bytes, on the last byte, and no ValidFrame, whatever was parsed before.
C4_Command ==
  result # NoResult =>
    /\ CommandPrefix(fed) => result = IncompleteFrame
    /\ WellFormedCommand(fed) =>
         /\ result = ValidCommand(fed[2], SubSeq(fed, 4, Len(fed)))
         /\ AllIncompleteBeforeLast

C4_Witness ==
  /\ WellFormedCommand(fed)
  /\ fed[2] = 3
  /\ result.kind = "ValidCommand"
  /\ result.payload = <<33, 1, 35>>

C6_Timeout ==
  /\ result = NoResult => parser = new
  /\ result.kind = "ValidFrame" =>
       /\ Len(fed) = 10 + Len(result.frame.payload)
       /\ result.frame = FrameOf(fed, Suffix(fed, Len(result.frame.payload)))
  /\ result.kind = "ValidCommand" =>
       /\ Len(result.payload) < Len(fed)
       /\ result.payload = Suffix(fed, Len(result.payload))

\* a timeout has just dropped a data frame cut inside its payload
C6_Witness ==
  /\ result = NoResult
  /\ Len(fed) = 12
  /\ FramePrefix(fed)
  /\ parser = new

\* C31: the parser never holds more than one frame: a ValidFrame or
\* ValidCommand is made of the bytes fed since the last emission,
\* InvalidFrame or timeout only (its header fields and its payload, as long
\* as its length byte says), and after each emission the parser equals a
\* new parser (Idle, empty payload, frame type and command id cleared).
C31_OneFrameBuffered ==
  /\ result.kind \in {"ValidFrame", "ValidCommand"} =>
       /\ parser = new
       /\ parser.state = "AwaitStartOfFrame" /\ parser.frame.payload = <<>>
       /\ parser.frame_type = 0 /\ parser.command_id = 0
  /\ result.kind = "ValidFrame" =>
       /\ FrameHeaderOk(fed, 10)
       /\ Len(fed) = 10 + fed[10]
       /\ result.frame = FrameOf(fed, SubSeq(fed, 11, Len(fed)))
  /\ result.kind = "ValidCommand" =>
       \/ /\ WellFormedCommand(fed)
          /\ result.id = fed[2]
          /\ result.payload = SubSeq(fed, 4, Len(fed))
       \/ /\ ZeroLengthFrame(fed)
          /\ result.payload = <<>>

\* a frame whose payload holds both start bytes has just been returned
C31_Witness ==
  /\ result.kind = "ValidFrame"
  /\ Len(fed) = 13
  /\ result.frame.payload = <<35, 33, 0>>
  /\ parser = new

-----------------------------------------------------------------------------
(* The PTI stream: a peer sends garbage and an envelope, the reader hands   *)
(* the bytes to PtiParser::parse in chunks cut anywhere                     *)

\* over-the-air payloads: 0x01, 0x55 (wake-up beam), 0x5B ('[')
OtaBytes == {1, 85, 91}
OtaSet == UNION {[1..n -> OtaBytes] : n \in 1..MaxOta}

\* appended info of an Rx payload: RSSI, RADIO_CONFIG, RADIO_INFO, STATUS_0,
\* APPENDED_INFO_CFG (0x52: Rx, 5 bytes, version 2); the last is not Z-Wave
RxTrailers == {<<157, 1, 1, 6, 82>>, <<157, 12, 3, 6, 82>>, <<157, 1, 1, 5, 82>>}

\* appended info of a Tx payload (0x08: Tx, 4 bytes, version 0)
TxTrailers == {<<2, 2, 6, 8>>}

PtiPayloads ==
  {<<HW_RX_START>> \o ota \o <<HW_RX_SUCCESS>> \o t : ota \in OtaSet, t \in RxTrailers}
  \cup
  {<<HW_TX_START>> \o ota \o <<HW_TX_SUCCESS>> \o t : ota \in OtaSet, t \in TxTrailers}

\* DCH v2: '[', length, version 2, timestamp(6), type(2), sequence(1), payload, ']'
DchV2(pti) ==
  <<DCH_START_SYMBOL, (13 + Len(pti)) % 256, (13 + Len(pti)) \div 256, 2, 0,
    0, 0, 0, 0, 0, 0, 0, 0, 0>> \o pti \o <<DCH_END_SYMBOL>>

\* DCH v3: '[', length, version 3, timestamp(8), type(2), flags(4), sequence(2), payload, ']'
DchV3(pti) ==
  <<DCH_START_SYMBOL, (20 + Len(pti)) % 256, (20 + Len(pti)) \div 256, 3, 0,
    0, 0, 0, 0, 0, 0, 0, 0, 0, 0, 0, 0, 0, 0, 0, 0>> \o pti \o <<DCH_END_SYMBOL>>

Envelopes == {DchV2(p) : p \in PtiPayloads} \cup {DchV3(p) : p \in PtiPayloads}

\* what may precede an envelope; the last one has a start symbol, a length
\* of 0xFFFF and version 7
Garbage ==
  {<<>>, <<93, 0>>, <<255, 255, 0, 0, 255>>, <<91, 255, 255, 7, 0>>}

\* streams that hold no envelope: a start symbol with length 0; one with
\* length 3 and a bad end symbol; a v2 envelope whose 6-byte payload
\* declares 10 bytes of appended info (cfg 0x78)
Malformed ==
  {<<91, 0, 0, 0, 0, 0, 0>>, <<91, 4, 0, 2, 0, 0, 0, 0>>,
   DchV2(<<248, 1, 1, 1, 6, 120>>)}

PtiInputs ==
  {[g |-> g, e |-> e] : g \in Garbage, e \in Envelopes}
  \cup {[g |-> <<>>, e |-> e] : e \in Malformed}

stream == sent.g \o sent.e

InitPti ==
  /\ ZnInit /\ RtIdle /\ FnIdle /\ RunIdle /\ LibIdle
  /\ buffer = PtiParser_new
  /\ frames = <<>>
  /\ crashed = FALSE
  /\ sent \in PtiInputs
  /\ pos = 0
  /\ wasReset = FALSE

\* the reader got the next k bytes of the stream and calls parse on them
PtiFeed(k) ==
  /\ ~crashed
  /\ ~wasReset
  /\ pos + k <= Len(stream)
  /\ LET r == PtiParser_parse(buffer, SubSeq(stream, pos + 1, pos + k)) IN
       /\ buffer' = r.buffer
       /\ frames' = frames \o r.frames
       /\ crashed' = r.panic
  /\ pos' = pos + k
  /\ calls' = IF calls < CallCap THEN calls + 1 ELSE calls
  /\ UNCHANGED <<runVars, libVars, sent, wasReset, znVars, ref, outB, outR, rtVars, fnVars>>

\* PtiParser::reset; the run ends with it
PtiReset ==
  /\ ~crashed
  /\ ~wasReset
  /\ buffer' = PtiParser_reset(buffer)
  /\ wasReset' = TRUE
  /\ UNCHANGED <<runVars, libVars, frames, crashed, sent, pos, znVars, batchVars, rtVars, fnVars>>

NextPti ==
  \/ \E k \in 1..Len(stream) : PtiFeed(k)
  \/ PtiReset

SpecPti == InitPti /\ [][NextPti]_vars

-----------------------------------------------------------------------------
(* Round trip: a frame is re-emitted by Frame::to_pti_vector and the vector *)
(* is parsed by a new PtiParser                                             *)

\* frames as ingestion produces them
IngestFrames ==
  {[region |-> r, channel |-> c, speed |-> 0, timestamp |-> 0, rssi |-> x, payload |-> pl] :
     r \in Regions, c \in {0, 1, 3}, x \in {0, 25, 157}, pl \in OtaSet}

InitRT ==
  /\ ZnInit /\ PtiIdle /\ FnIdle /\ RunIdle /\ LibIdle
  /\ rtFrame \in IngestFrames
  /\ rtStage = "ingested"

ReEmit ==
  /\ rtStage = "ingested"
  /\ sent' = [g |-> <<>>, e |-> to_pti_vector(rtFrame)]
  /\ rtStage' = "emitted"
  /\ UNCHANGED <<runVars, libVars, rtFrame, buffer, frames, crashed, pos, wasReset, znVars, batchVars, fnVars>>

Reparse ==
  /\ rtStage = "emitted"
  /\ LET r == PtiParser_parse(PtiParser_new, sent.e) IN
       /\ buffer' = r.buffer
       /\ frames' = r.frames
       /\ crashed' = r.panic
  /\ pos' = Len(sent.e)
  /\ rtStage' = "reparsed"
  /\ UNCHANGED <<runVars, libVars, rtFrame, sent, wasReset, znVars, batchVars, fnVars>>

NextRT == ReEmit \/ Reparse

SpecRT == InitRT /\ [][NextRT]_vars

-----------------------------------------------------------------------------
(* Claims on the PTI parser and the re-emitter *)

\* e is one whole envelope that parse_dch_frame accepts
ValidEnvelope(e) ==
  /\ Len(e) >= 3
  /\ Len(e) = from_le_bytes(e[2], e[3]) + 2
  /\ parse_dch_frame(e).kind = "ValidFrame"

\* the frame e carries
FrameIn(e) == parse_dch_frame(e).frame

\* g holds no start symbol
NoStart(g) == \A i \in 1..Len(g) : g[i] # 91

\* g cannot be the beginning of a valid envelope: it does not start with
\* '[', or it carries a version other than 2 and 3
NotEnvelopeStart(g) ==
  /\ g # <<>>
  /\ g[1] # 91 \/ (Len(g) >= 5 /\ from_le_bytes(g[4], g[5]) \notin {2, 3})

\* C7: a valid envelope fed in chunks cut anywhere yields nothing before
\* its last byte and then exactly the frames of a single call on the whole
\* envelope (one frame), and the buffer is empty afterwards.
C7_Streaming ==
  (sent.g = <<>> /\ ValidEnvelope(sent.e) /\ ~wasReset /\ rtStage = "none") =>
    /\ ~crashed
    /\ pos < Len(sent.e) => frames = <<>> /\ buffer = SubSeq(sent.e, 1, pos)
    /\ pos = Len(sent.e) =>
         /\ frames = PtiParser_parse(PtiParser_new, sent.e).frames
         /\ frames = <<FrameIn(sent.e)>>
         /\ buffer = <<>>

C7_Witness ==
  /\ sent.g = <<>> /\ ValidEnvelope(sent.e) /\ ~wasReset
  /\ pos = Len(sent.e)
  /\ calls >= 2
  /\ Len(frames) = 1
  /\ frames[1].payload = <<91, 1>>

\* C8 (as claimed): re-emitting a frame m and parsing the vector yields
\* exactly one frame with m's region, channel, rssi and payload.
C8_RoundTrip ==
  rtStage = "reparsed" =>
    /\ Len(frames) = 1
    /\ frames[1].region = rtFrame.region
    /\ frames[1].channel = rtFrame.channel
    /\ frames[1].rssi = rtFrame.rssi
    /\ frames[1].payload = rtFrame.payload

\* C9 (as claimed): a parse call never stops at a position that holds '['
\* with at least len+2 bytes buffered from it.
C9_Progress ==
  (calls >= 1 /\ ~crashed /\ Len(buffer) >= 3 /\ buffer[1] = 91) =>
    Len(buffer) < from_le_bytes(buffer[2], buffer[3]) + 2

\* C10 (as claimed): garbage that is not the start of a valid envelope,
\* then a valid envelope: the envelope's frame is out once its last byte
\* has been fed.
C10_GarbageSkipping ==
  (NotEnvelopeStart(sent.g) /\ ValidEnvelope(sent.e) /\ ~wasReset
   /\ pos = Len(stream)) =>
    /\ Len(frames) >= 1
    /\ frames[Len(frames)] = FrameIn(sent.e)

\* C10 (amended): garbage without any '[' byte, then a valid envelope, fed
\* in one call or several to a parser with an empty buffer: exactly the
\* envelope's frame is out once its last byte has been fed.
C10_GarbageWithoutStart ==
  (NoStart(sent.g) /\ ValidEnvelope(sent.e) /\ ~wasReset /\ rtStage = "none"
   /\ pos = Len(stream)) =>
    /\ ~crashed
    /\ frames = <<FrameIn(sent.e)>>
    /\ buffer = <<>>

C10_Witness ==
  /\ sent.g = <<255, 255, 0, 0, 255>>
  /\ ValidEnvelope(sent.e) /\ ~wasReset
  /\ pos = Len(stream)
  /\ calls >= 2
  /\ frames = <<FrameIn(sent.e)>>

-----------------------------------------------------------------------------
(* Several envelopes back to back on one connection *)

\* most envelopes in one stream
MaxEnvelopes == 3

\* an Rx envelope (v2, payload 01) and a Tx envelope (v3, payload 5B 01)
MultiEnvelopes ==
  {DchV2(<<HW_RX_START, 1, HW_RX_SUCCESS, 157, 1, 1, 6, 82>>),
   DchV3(<<HW_TX_START, 91, 1, HW_TX_SUCCESS, 2, 2, 6, 8>>)}

Runs == UNION {[1..n -> MultiEnvelopes] : n \in 2..MaxEnvelopes}

RECURSIVE Concat(_)
Concat(run) == IF run = <<>> THEN <<>> ELSE Head(run) \o Concat(Tail(run))

InitMulti ==
  /\ ZnInit /\ RtIdle /\ FnIdle /\ RunIdle /\ LibIdle
  /\ buffer = PtiParser_new
  /\ frames = <<>>
  /\ crashed = FALSE
  /\ sent \in {[g |-> <<>>, e |-> Concat(run)] : run \in Runs}
  /\ pos = 0
  /\ wasReset = FALSE

SpecMulti == InitMulti /\ [][NextPti]_vars

\* the envelopes of the concatenation s that end within its first n bytes
RECURSIVE EnvelopesFed(_, _)
EnvelopesFed(s, n) ==
  IF Len(s) < 3 THEN <<>>
  ELSE LET size == from_le_bytes(s[2], s[3]) + 2 IN
       IF size > n \/ size > Len(s) THEN <<>>
       ELSE <<SubSeq(s, 1, size)>> \o EnvelopesFed(SubSeq(s, size + 1, Len(s)), n - size)

\* C11: a stream of several valid envelopes, fed in one chunk or cut
\* anywhere: after every call the frames emitted so far are exactly the
\* frames of the envelopes fed completely, one per envelope, in stream order.
C11_OnePerEnvelopeInOrder ==
  LET all == EnvelopesFed(stream, Len(stream))
      fed_ == EnvelopesFed(stream, pos)
  IN (Len(all) >= 2 /\ \A i \in 1..Len(all) : ValidEnvelope(all[i])) =>
       /\ ~crashed
       /\ frames = [i \in 1..Len(fed_) |-> FrameIn(fed_[i])]

C11_Witness ==
  /\ Len(EnvelopesFed(stream, Len(stream))) = 3
  /\ pos = Len(stream)
  /\ calls >= 2
  /\ Len(frames) = 3
  /\ frames[1] # frames[2]
  /\ frames[2] = frames[3]

-----------------------------------------------------------------------------
(* The parsing and table functions called on their own: an input is drawn   *)
(* and the function that arg.fn names is called on it once                  *)

\* PTI payloads are HW_START, over-the-air bytes, HW_END, no or one RSSI
\* byte, RADIO_CONFIG, RADIO_INFO (channel 1), STATUS_0, APPENDED_INFO_CFG
FnStarts == {248, 252, 0}
FnOta == {<<>>, <<1>>, <<85>>, <<85, 1>>, <<1, 85>>}
FnEnds == {249, 253, 250}
\* as signed bytes: 0, 50, 100, -128, -99, -78, -1
FnRssi == {<<>>, <<0>>, <<50>>, <<100>>, <<128>>, <<157>>, <<178>>, <<255>>}
\* EU; no region; 0x2C, whose low five bits are 12 (USLR)
FnRadioConfig == {1, 6, 44}
\* Z-Wave; protocol 5; 0x0E, whose low three bits are 6; 0x16, whose low nibble is 6
FnStatus == {6, 5, 14, 22}
\* Rx 5 bytes version 2; Rx 5 bytes version 0; Tx 4 bytes version 0;
\* Tx 4 bytes version 1; Rx 4 bytes version 0; Rx 10 bytes version 0
FnCfg == {82, 80, 8, 9, 72, 120}

PtiFrameInputs ==
  {<<st>> \o ota \o <<en>> \o rs \o <<rc, 1, s0, cfg>> :
     st \in FnStarts, ota \in FnOta, en \in FnEnds, rs \in FnRssi,
     rc \in FnRadioConfig, s0 \in FnStatus, cfg \in FnCfg}
  \cup {<<>>, <<248, 249, 1, 6, 8>>}

\* the envelope of a PTI payload with the start symbol, version and end
\* symbol given; the header is as long as the version asks (as version 2
\* when it is neither 2 nor 3)
DchWith(start, version, pti, end) ==
  LET zeros == IF version = 3 THEN <<0, 0, 0, 0, 0, 0, 0, 0, 0, 0, 0, 0, 0, 0, 0, 0>>
               ELSE <<0, 0, 0, 0, 0, 0, 0, 0, 0>>
      length == 4 + Len(zeros) + Len(pti)
  IN <<start, length % 256, length \div 256, version % 256, version \div 256>>
     \o zeros \o pti \o <<end>>

DchWhole ==
  {DchWith(start, version, pti, end) :
     start \in {91, 92}, version \in {2, 3, 1, 4, 258},
     pti \in {<<248, 1, 249, 157, 1, 1, 6, 82>>, <<252, 1, 91, 253, 2, 2, 6, 8>>,
              <<248, 1, 249, 157, 1, 1, 5, 82>>},
     end \in {93, 92}}
  \cup {<<91, 0, 0, 0, 0, 0, 0>>, <<91, 2, 0, 93, 0, 0>>, <<91, 3, 0, 2, 93, 0>>,
        <<91, 5, 0, 2, 0, 0, 93>>, <<91, 5, 0, 2, 0, 0, 92>>,
        <<92, 16, 0, 2, 0, 0>>, <<91, 28, 0>>,
        <<91, 13, 0, 2, 0, 0, 0, 0, 0, 0, 0, 0, 0, 0, 93>>,
        <<91, 20, 0, 3, 0, 0, 0, 0, 0, 0, 0, 0, 0, 0, 0, 0, 0, 0, 0, 0, 0, 93>>}

\* every beginning of an envelope, and the envelope followed by more bytes
DchFrameInputs ==
  UNION {{SubSeq(w \o <<91, 0>>, 1, n) : n \in 0..(Len(w) + 2)} : w \in DchWhole}

SpeedInputs == {<<channel, region>> : channel \in (0..3) \cup {63}, region \in 0..31}

\* frames with a payload of every length a length byte can announce
EmitFrames ==
  {[FrameDefault EXCEPT !.region = "US", !.channel = 1, !.rssi = 157,
                        !.payload = [i \in 1..n |-> (i + 90) % 256]] : n \in 0..255}

FnInputs ==
  {[fn |-> "parse_pti_frame", data |-> d] : d \in PtiFrameInputs}
  \cup {[fn |-> "to_pti_vector", frame |-> f] : f \in EmitFrames}
  \cup {[fn |-> "parse_dch_frame", data |-> d] : d \in DchFrameInputs}
  \cup {[fn |-> "get_speed", channel |-> k[1], region |-> k[2]] : k \in SpeedInputs}
  \cup {[fn |-> "PtiRegion::from", region |-> r] : r \in Regions}
  \cup {[fn |-> "pti_region_to_region", pti_region |-> c] : c \in 0..255}

InitFn ==
  /\ ZnInit /\ PtiIdle /\ RtIdle /\ RunIdle /\ LibIdle
  /\ arg \in FnInputs
  /\ ret = NoResult
  /\ zlf = [open |-> FALSE, pos |-> 0, frame_counter |-> 0]

CallParsePtiFrame ==
  /\ arg.fn = "parse_pti_frame" /\ ret = NoResult
  /\ ret' = parse_pti_frame(arg.data)
  /\ UNCHANGED <<runVars, libVars, arg, zlf, znVars, batchVars, ptiVars, rtVars>>

CallParseDchFrame ==
  /\ arg.fn = "parse_dch_frame" /\ ret = NoResult
  /\ ret' = parse_dch_frame(arg.data)
  /\ UNCHANGED <<runVars, libVars, arg, zlf, znVars, batchVars, ptiVars, rtVars>>

CallGetSpeed ==
  /\ arg.fn = "get_speed" /\ ret = NoResult
  /\ ret' = [kind |-> "u8", value |-> get_speed(arg.channel, arg.region)]
  /\ UNCHANGED <<runVars, libVars, arg, zlf, znVars, batchVars, ptiVars, rtVars>>

\* PtiRegion::from(region) as u8, as Frame::to_pti_vector writes it
CallPtiRegionFrom ==
  /\ arg.fn = "PtiRegion::from" /\ ret = NoResult
  /\ ret' = [kind |-> "PtiRegion", value |-> PtiRegionFrom(arg.region)]
  /\ UNCHANGED <<runVars, libVars, arg, zlf, znVars, batchVars, ptiVars, rtVars>>

\* pti_region_to_region on a byte, or on the code PtiRegion::from returned
CallPtiRegionToRegion ==
  /\ \/ arg.fn = "pti_region_to_region" /\ ret = NoResult
        /\ ret' = [kind |-> "Option<Region>", of |-> arg.pti_region,
                   value |-> pti_region_to_region(arg.pti_region)]
     \/ arg.fn = "PtiRegion::from" /\ ret.kind = "PtiRegion"
        /\ ret' = [kind |-> "Option<Region>", of |-> ret.value,
                   value |-> pti_region_to_region(ret.value)]
  /\ UNCHANGED <<runVars, libVars, arg, zlf, znVars, batchVars, ptiVars, rtVars>>

\* frame.to_pti_vector(), as handle_client calls it
CallToPtiVector ==
  /\ arg.fn = "to_pti_vector" /\ ret = NoResult
  /\ ret' = [kind |-> "Ok(Vec<u8>)", value |-> to_pti_vector(arg.frame)]
  /\ UNCHANGED <<runVars, libVars, arg, zlf, znVars, batchVars, ptiVars, rtVars>>

NextFn ==
  \/ CallToPtiVector
  \/ CallParsePtiFrame
  \/ CallParseDchFrame
  \/ CallGetSpeed
  \/ CallPtiRegionFrom
  \/ CallPtiRegionToRegion

SpecFn == InitFn /\ [][NextFn]_vars

\* the payload handed to parse_pti_frame, and its last byte
FnData == arg.data
FnCfgByte == FnData[Len(FnData)]

\* C12 (as stated): a PTI payload is accepted only with HW_START 0xF8 and
\* HW_END 0xF9, or HW_START 0xFC and HW_END 0xFD; HW_END is the byte after
\* the over-the-air bytes of the accepted frame.
C12_HwEndMatchesHwStart ==
  (arg.fn = "parse_pti_frame" /\ ret.kind = "ValidFrame") =>
    LET hw_start == FnData[1]
        hw_end == FnData[2 + Len(ret.frame.payload)]
    IN \/ hw_start = 248 /\ hw_end = 249
       \/ hw_start = 252 /\ hw_end = 253

\* C13: a PTI payload whose STATUS_0 (the byte before the last) has a low
\* nibble other than 6 yields Invalid, whatever else it holds.
C13_ZWaveOnly ==
  (arg.fn = "parse_pti_frame" /\ ret # NoResult /\ Len(FnData) >= 2
   /\ FnData[Len(FnData) - 1] % 16 # 6) =>
    ret = PtiInvalidFrame

C13_Witness ==
  /\ arg.fn = "parse_pti_frame"
  /\ arg.data = <<248, 1, 249, 157, 1, 1, 14, 82>>
  /\ ret = PtiInvalidFrame

\* C14: a PTI payload with over-the-air bytes (at least one byte between
\* HW_START and the HW_END that the trailer length in the last byte places)
\* whose first is 0x55 yields Invalid; and no frame is returned with an
\* empty payload or one that starts with 0x55.
C14_WakeUpBeam ==
  (arg.fn = "parse_pti_frame" /\ ret # NoResult) =>
    /\ (/\ Len(FnData) >= 6
        /\ Len(FnData) - 1 - (((FnCfgByte \div 8) % 8) + 3) >= 2
        /\ FnData[2] = 85) => ret = PtiInvalidFrame
    /\ ret.kind = "ValidFrame" =>
         /\ ret.frame.payload # <<>>
         /\ ret.frame.payload[1] # 85

C14_Witness ==
  /\ arg.fn = "parse_pti_frame"
  /\ arg.data = <<248, 85, 1, 249, 157, 1, 1, 6, 82>>
  /\ ret = PtiInvalidFrame

\* C16: the frame of an Rx payload (bit 6 of the last byte set) has for
\* RSSI the absolute value of the fifth byte from the end, read as signed,
\* less 0x32 with saturation at -128 when bits 0-2 of the last byte are 1
\* or more, and as it is when they are 0; the frame of a Tx payload has 0.
C16_Rssi ==
  (arg.fn = "parse_pti_frame" /\ ret.kind = "ValidFrame") =>
    LET n == Len(FnData)
        is_rx == (FnCfgByte \div 64) % 2 = 1
        version == FnCfgByte % 8
        raw == FnData[n - 4]
        signed == IF raw > 127 THEN raw - 256 ELSE raw
        shifted == IF version = 0 THEN signed
                   ELSE IF signed - 50 < -128 THEN -128 ELSE signed - 50
        expected == IF ~is_rx THEN 0
                    ELSE IF shifted < 0 THEN 0 - shifted ELSE shifted
    IN ret.frame.rssi = expected

\* an Rx frame with trailer byte 0x9D (-99): -149 saturates to -128
C16_Witness ==
  /\ arg.fn = "parse_pti_frame"
  /\ arg.data = <<248, 1, 249, 157, 1, 1, 6, 82>>
  /\ ret.kind = "ValidFrame"
  /\ ret.frame.rssi = 128

\* what the envelope rules say of the bytes d handed to parse_dch_frame,
\* where they are long enough to hold the fields the rules read
DchLen(d) == d[2] + 256 * d[3]
DchVersion(d) == d[4] + 256 * d[5]
DchWrongStart(d) == Len(d) >= 1 /\ d[1] # 91
DchShort(d) == Len(d) >= 3 /\ d[1] = 91 /\ Len(d) < DchLen(d) + 2
DchWhole_(d) == Len(d) >= 3 /\ d[1] = 91 /\ Len(d) >= DchLen(d) + 2
DchWrongEnd(d) == DchWhole_(d) /\ d[DchLen(d) + 2] # 93
DchWrongVersion(d) == DchWhole_(d) /\ Len(d) >= 5 /\ DchVersion(d) \notin {2, 3}
\* the bytes from offset 14 (version 2) or 21 (version 3) up to the ']'
DchPayload(d) ==
  SubSeq(d, IF DchVersion(d) = 2 THEN 15 ELSE 22, DchLen(d) + 1)
DchParsedRight(d, r) ==
  /\ DchWhole_(d) /\ ~DchWrongEnd(d) /\ ~DchWrongVersion(d)
  /\ r = parse_pti_frame(DchPayload(d))

C17_GetSpeed ==
  (arg.fn = "get_speed" /\ ret # NoResult) =>
    LET key == arg.channel * 256 + arg.region IN
    /\ key \in baud_9600 => ret.value = 0
    /\ key \in baud_40k => ret.value = 1
    /\ key \in baud_100k => ret.value = 2
    /\ key \in lr_speeds => ret.value = 3
    /\ key \notin (baud_9600 \cup baud_40k \cup baud_100k \cup lr_speeds) => ret.value = 0

\* the Long-Range PTI region codes and the pairs of channel and region that
\* the comments of lr_speeds name
LrRegionCodes == {12, 13, 14, 15, 16, 17}
LrPairs == {<<3, 12>>, <<3, 13>>, <<0, 14>>, <<1, 14>>, <<3, 15>>, <<3, 16>>, <<0, 17>>, <<1, 17>>}

\* C33 (as stated): get_speed gives the bitrate code 3 (Long-Range) for
\* channel 3 with US_LR1 0x0C, US_LR2 0x0D, EU_LR1 0x0F or EU_LR2 0x10 and
\* for channels 0 and 1 with US_LR3 0x0E or EU_LR3 0x11, and never gives 3
\* for a region that is not a Long-Range one.
C33_LongRange ==
  (arg.fn = "get_speed" /\ ret # NoResult) =>
    /\ <<arg.channel, arg.region>> \in LrPairs => ret.value = 3
    /\ arg.region \notin LrRegionCodes => ret.value # 3

\* C37 (as stated): parse_pti_frame and parse_dch_frame return a result for
\* every input; a PTI payload of 6 or more bytes that is shorter than the
\* appended info its last byte declares (bits 3-5 plus 3, and the HW_END
\* before it) gives InvalidFrame.
C37_NoUnderflow ==
  (arg.fn \in {"parse_pti_frame", "parse_dch_frame"} /\ ret # NoResult) =>
    /\ ret.kind \in {"ValidFrame", "InvalidFrame", "IncompleteFrame"}
    /\ (arg.fn = "parse_pti_frame" /\ Len(arg.data) >= 6
          /\ Len(arg.data) - 1 < (BitAnd(arg.data[Len(arg.data)], 56) \div 8) + 3) =>
         ret = PtiInvalidFrame

\* C18: a native region converted to its PTI code and decoded is the same
\* region again; the codes 0, 6, 13, 14 and those above 15 decode to none.
C18_RegionRoundTrip ==
  /\ (arg.fn = "PtiRegion::from" /\ ret.kind = "Option<Region>") =>
       ret.value = arg.region
  /\ (arg.fn = "pti_region_to_region" /\ ret.kind = "Option<Region>"
      /\ arg.pti_region \in ({0, 6, 13, 14} \cup (16..255))) =>
       ret.value = "None"

C18_Witness ==
  /\ arg = [fn |-> "PtiRegion::from", region |-> "IL"]
  /\ ret = [kind |-> "Option<Region>", of |-> 9, value |-> "IL"]

-----------------------------------------------------------------------------
(* crates/cli/src/zlf/reader.rs: the capture file reader *)

ZLF_VERSION == 104

BitXor(a, b) == a + b - 2 * BitAnd(a, b)

\* x with bit k (of weight w = 2^k) inverted
flip(x, w) == IF (x \div w) % 2 = 1 THEN x - w ELSE x + w

\* x ^ 0x1021: bits 12, 5 and 0 inverted
xor_poly(x) == flip(flip(flip(x, 4096), 32), 1)

\* n shifts of the CRC register, polynomial 0x1021, high bit first
RECURSIVE crc_shift(_, _)
crc_shift(crc, n) ==
  IF n = 0 THEN crc
  ELSE LET sh == (crc * 2) % 65536 IN
       crc_shift(IF crc >= 32768 THEN xor_poly(sh) ELSE sh, n - 1)

\* one byte into the register
crc_update(crc, byte) == crc_shift(BitXor(crc, byte * 256), 8)

\* the bytes data[lo..hi] (from 1, both included) into the register, the
\* left half before the right half
RECURSIVE crc_range(_, _, _, _)
crc_range(crc, data, lo, hi) ==
  IF lo > hi THEN crc
  ELSE IF lo = hi THEN crc_update(crc, data[lo])
  ELSE LET mid == (lo + hi) \div 2 IN
       CHOOSE r \in {crc_range(left, data, mid + 1, hi) :
                       left \in {crc_range(crc, data, lo, mid)}} : TRUE

\* crc16::State::<AUG_CCITT>::calculate: CRC-16/AUG-CCITT, initial value 0x1D0F
calculate(data) == crc_range(7439, data, 1, Len(data))

\* u32::from_le_bytes
u32_from_le_bytes(b0, b1, b2, b3) == b0 + 256 * b1 + 65536 * b2 + 16777216 * b3

\* (changed) every byte is taken for a known type
ApiTypeFrom_AllKnown(value) ==
  IF value = 254 THEN "Zniffer" ELSE "Pti"

\* impl From<u8> for ApiType
ApiTypeFrom(value) ==
  CASE value = 245 -> "Pti"
    [] value = 254 -> "Zniffer"
    [] OTHER -> "Unknown"

\* ZlfReader::new(r) where file is all that r holds: Ok(Self { r at 2048,
\* frame_counter: 0 }) or the error
ZlfReader_new(file) ==
  IF Len(file) < 2048 THEN [ok |-> FALSE, err |-> "Io(UnexpectedEof)"]
  ELSE
  LET file_checksum == from_le_bytes(At(file, 2046), At(file, 2047))
      version == u32_from_le_bytes(At(file, 0), At(file, 1), At(file, 2), At(file, 3))
  IN
  IF calculate(Slice(file, 0, 2046)) # file_checksum
  THEN [ok |-> FALSE, err |-> "InvalidStartPattern"]
  ELSE IF version # ZLF_VERSION THEN [ok |-> FALSE, err |-> "InvalidZlfVersion"]
  ELSE [ok |-> TRUE, err |-> "none"]

ZlfErr(e, file, self) ==
  [kind |-> "Err", err |-> e, payload |-> <<>>,
   pos |-> Len(file), frame_counter |-> self.frame_counter]

\* ZlfReader::next(&mut self): the value returned, the position of r and
\* frame_counter after the call. A read_exact that meets the end of the
\* file leaves r at the end.
ZlfReader_next(file, self) ==
  LET rest == Len(file) - self.pos
      payload_length == u32_from_le_bytes(At(file, self.pos + 9), At(file, self.pos + 10),
                                          At(file, self.pos + 11), At(file, self.pos + 12))
  IN
  IF rest < 8 THEN [kind |-> "Ok(None)", err |-> "none", payload |-> <<>>,
                    pos |-> Len(file), frame_counter |-> self.frame_counter]
  ELSE IF rest < 9 THEN ZlfErr("Io(UnexpectedEof)", file, self)
  ELSE IF rest < 13 THEN ZlfErr("Io(UnexpectedEof)", file, self)
  ELSE IF rest < 13 + payload_length THEN ZlfErr("Eof", file, self)
  ELSE IF rest < 14 + payload_length THEN ZlfErr("Io(UnexpectedEof)", file, self)
  ELSE IF ApiTypeFrom(At(file, self.pos + 13 + payload_length)) = "Unknown"
  THEN [kind |-> "Err", err |-> "InvalidApiTypeField", payload |-> <<>>,
        pos |-> self.pos + 14 + payload_length, frame_counter |-> self.frame_counter]
  ELSE [kind |-> "Ok(Some)", err |-> "none",
        payload |-> Slice(file, self.pos + 13, self.pos + 13 + payload_length),
        pos |-> self.pos + 14 + payload_length,
        frame_counter |-> self.frame_counter + 1]

-----------------------------------------------------------------------------
(* src/zlf/reader.rs: the capture file reader of the zniff-rs binary *)

\* ZlfReader::new(r): one version byte, four encoding bytes, a seek over
\* 2041 bytes (which may pass the end of the file), two pattern bytes
src_ZlfReader_new(file) ==
  IF Len(file) < 1 THEN [ok |-> FALSE, err |-> "Io(UnexpectedEof)"]
  ELSE IF At(file, 0) # ZLF_VERSION THEN [ok |-> FALSE, err |-> "InvalidZlfVersion"]
  ELSE IF Len(file) < 5 THEN [ok |-> FALSE, err |-> "Io(UnexpectedEof)"]
  ELSE IF Len(file) < 2048 THEN [ok |-> FALSE, err |-> "Io(UnexpectedEof)"]
  ELSE IF At(file, 2046) # 35 \/ At(file, 2047) # 18
  THEN [ok |-> FALSE, err |-> "InvalidStartPattern"]
  ELSE [ok |-> TRUE, err |-> "none"]

\* ZlfReader::next(&mut self): the timestamp is read with read(), which
\* returns the bytes left when fewer than 8 are; only 0 bytes end the stream
src_ZlfReader_next(file, self) ==
  LET rest == Len(file) - self.pos
      payload_length == u32_from_le_bytes(At(file, self.pos + 9), At(file, self.pos + 10),
                                          At(file, self.pos + 11), At(file, self.pos + 12))
  IN
  IF rest = 0 THEN [kind |-> "Ok(None)", err |-> "none", payload |-> <<>>,
                    pos |-> Len(file), frame_counter |-> self.frame_counter]
  ELSE IF rest < 9 THEN ZlfErr("Io(UnexpectedEof)", file, self)
  ELSE IF rest < 13 THEN ZlfErr("Io(UnexpectedEof)", file, self)
  ELSE IF rest < 13 + payload_length THEN ZlfErr("Eof", file, self)
  ELSE IF rest < 14 + payload_length THEN ZlfErr("Io(UnexpectedEof)", file, self)
  ELSE IF ApiTypeFrom(At(file, self.pos + 13 + payload_length)) = "Unknown"
  THEN [kind |-> "Err", err |-> "InvalidApiTypeField", payload |-> <<>>,
        pos |-> self.pos + 14 + payload_length, frame_counter |-> self.frame_counter]
  ELSE [kind |-> "Ok(Some)", err |-> "none",
        payload |-> Slice(file, self.pos + 13, self.pos + 13 + payload_length),
        pos |-> self.pos + 14 + payload_length,
        frame_counter |-> self.frame_counter]

-----------------------------------------------------------------------------
(* A capture file is opened and read to its end, by either reader *)

Zeros(n) == [i \in 1..n |-> 0]

\* preambles: version 104 and the CRC of the 2046 bytes (0x1223); the CRC
\* one off; the CRC with its bytes exchanged; version 105 with its CRC;
\* version 0x168 with its CRC; an encoding tag and a comment with their CRC
Preamble(head, crc_lo, crc_hi) == head \o Zeros(2046 - Len(head)) \o <<crc_lo, crc_hi>>
GoodPreamble == Preamble(<<104, 0, 0, 0>>, 35, 18)
OtherPreambles ==
  {Preamble(<<104, 0, 0, 0>>, 36, 18),
   Preamble(<<104, 0, 0, 0>>, 18, 35),
   Preamble(<<105, 0, 0, 0>>, 236, 79),
   Preamble(<<104, 1, 0, 0>>, 139, 63),
   Preamble(<<104, 0, 0, 0, 1, 0, 0, 0, 99>>, 81, 223),
   Preamble(<<104, 0, 0, 0, 1, 0, 0, 0, 99>>, 35, 18)}

\* timestamp (8), properties (1), payload_len (4), payload, api_type (1)
Record(payload, api_type) ==
  <<1, 2, 3, 4, 5, 6, 7, 8, 129, Len(payload), 0, 0, 0>> \o payload \o <<api_type>>

\* a Zniffer record, a PTI record without payload, a record of no known type
RecordStream == Record(<<33, 1>>, 254) \o Record(<<>>, 245) \o Record(<<7>>, 0)

ZlfFiles ==
  {GoodPreamble \o SubSeq(RecordStream, 1, n) : n \in 0..Len(RecordStream)}
  \cup {p \o Record(<<>>, 245) : p \in OtherPreambles}
  \cup {SubSeq(GoodPreamble, 1, 2047), <<>>}

InitZlf ==
  /\ ZnInit /\ PtiIdle /\ RtIdle /\ RunIdle /\ LibIdle
  /\ arg \in {[fn |-> "ZlfReader", crate |-> c, file |-> f] :
                c \in {"cli", "src"}, f \in ZlfFiles}
  /\ ret = NoResult
  /\ zlf = [open |-> FALSE, pos |-> 0, frame_counter |-> 0]

\* ZlfReader::new(file)?
ZlfOpen ==
  /\ arg.fn = "ZlfReader" /\ arg.crate = "cli" /\ ret = NoResult
  /\ LET r == ZlfReader_new(arg.file) IN
       /\ ret' = [kind |-> IF r.ok THEN "Ok" ELSE "Err", err |-> r.err,
                  op |-> "new", from |-> 0, payload |-> <<>>]
       /\ zlf' = IF r.ok THEN [open |-> TRUE, pos |-> 2048, frame_counter |-> 0] ELSE zlf
  /\ UNCHANGED <<runVars, libVars, arg, znVars, batchVars, ptiVars, rtVars>>

\* while let Some(rec) = reader.next()?
ZlfNext ==
  /\ arg.fn = "ZlfReader" /\ arg.crate = "cli" /\ zlf.open
  /\ ret.kind \in {"Ok", "Ok(Some)"}
  /\ LET r == ZlfReader_next(arg.file, zlf) IN
       /\ ret' = [kind |-> r.kind, err |-> r.err, op |-> "next", from |-> zlf.pos,
                  payload |-> r.payload]
       /\ zlf' = [open |-> TRUE, pos |-> r.pos, frame_counter |-> r.frame_counter]
  /\ UNCHANGED <<runVars, libVars, arg, znVars, batchVars, ptiVars, rtVars>>

\* src/zlf: ZlfReader::new(file)?
SrcZlfOpen ==
  /\ arg.fn = "ZlfReader" /\ arg.crate = "src" /\ ret = NoResult
  /\ LET r == src_ZlfReader_new(arg.file) IN
       /\ ret' = [kind |-> IF r.ok THEN "Ok" ELSE "Err", err |-> r.err,
                  op |-> "new", from |-> 0, payload |-> <<>>]
       /\ zlf' = IF r.ok THEN [open |-> TRUE, pos |-> 2048, frame_counter |-> 0] ELSE zlf
  /\ UNCHANGED <<runVars, libVars, arg, znVars, batchVars, ptiVars, rtVars>>

\* src/zlf: while let Some(rec) = reader.next()?
SrcZlfNext ==
  /\ arg.fn = "ZlfReader" /\ arg.crate = "src" /\ zlf.open
  /\ ret.kind \in {"Ok", "Ok(Some)"}
  /\ LET r == src_ZlfReader_next(arg.file, zlf) IN
       /\ ret' = [kind |-> r.kind, err |-> r.err, op |-> "next", from |-> zlf.pos,
                  payload |-> r.payload]
       /\ zlf' = [open |-> TRUE, pos |-> r.pos, frame_counter |-> r.frame_counter]
  /\ UNCHANGED <<runVars, libVars, arg, znVars, batchVars, ptiVars, rtVars>>

NextZlf == ZlfOpen \/ ZlfNext \/ SrcZlfOpen \/ SrcZlfNext

SpecZlf == InitZlf /\ [][NextZlf]_vars

\* C19 (as stated): opening a file of 2048 bytes or more fails, and leaves
\* no reader, when bytes 2046-2047 (little-endian) differ from the CRC-16/AUG-CCITT of
\* bytes 0..2045 or bytes 0-3 (little-endian) are not 104; it succeeds when
\* both match, with the reader at byte 2048. Without a reader no record is
\* read.
C19_OpenChecksPreamble ==
  /\ (ret # NoResult /\ ret.op = "new" /\ Len(arg.file) >= 2048) =>
       LET f == arg.file
           stored == f[2047] + 256 * f[2048]
           version == f[1] + 256 * f[2] + 65536 * f[3] + 16777216 * f[4]
           matches == stored = calculate(SubSeq(f, 1, 2046)) /\ version = 104
       IN /\ matches => (ret.kind = "Ok" /\ zlf.open /\ zlf.pos = 2048)
          /\ ~matches => (ret.kind = "Err" /\ ~zlf.open)
  /\ (ret # NoResult /\ ret.op = "next") => zlf.open

\* C20 (as stated): next() returns None only with no byte left in the
\* file; with bytes left that end inside the record (before its 8 + 1 + 4
\* header bytes, its payload and its api_type byte are complete) it returns
\* an end-of-file error.
C20_EndOfFile ==
  (ret # NoResult /\ ret.op = "next") =>
    LET f == arg.file
        rest == Len(f) - ret.from
        size == IF rest < 13 THEN 14
                ELSE 14 + f[ret.from + 10] + 256 * f[ret.from + 11]
                        + 65536 * f[ret.from + 12] + 16777216 * f[ret.from + 13]
    IN /\ ret.kind = "Ok(None)" => rest = 0
       /\ (rest > 0 /\ rest < size) =>
            (ret.kind = "Err" /\ ret.err \in {"Io(UnexpectedEof)", "Eof"})

\* the size of the record that starts at offset p of f (14 when its length
\* field is not complete), and the offset of the n-th record after the
\* preamble
RecordSize(f, p) ==
  IF Len(f) - p < 13 THEN 14
  ELSE 14 + f[p + 10] + 256 * f[p + 11] + 65536 * f[p + 12] + 16777216 * f[p + 13]

RECURSIVE RecordStart(_, _)
RecordStart(f, n) ==
  IF n = 0 THEN 2048 ELSE RecordStart(f, n - 1) + RecordSize(f, RecordStart(f, n - 1))

\* C21: the n-th next() reads the n-th record of the file: when that record
\* is whole and its api_type byte is 0xF5 or 0xFE, it returns the record with
\* exactly the payload_len bytes that follow the length field and leaves the
\* reader at the next record; when the api_type byte is any other value it
\* fails with the invalid-api-type error and returns no record.
C21_RecordsInOrder ==
  (ret # NoResult /\ ret.op = "next" /\ Len(arg.file) - ret.from >= RecordSize(arg.file, ret.from)) =>
    LET f == arg.file
        size == RecordSize(f, ret.from)
        api_type == f[ret.from + size]
    IN /\ \E n \in 0..2 :
            /\ ret.from = RecordStart(f, n)
            /\ arg.crate = "cli" =>
                 zlf.frame_counter = IF ret.kind = "Ok(Some)" THEN n + 1 ELSE n
       /\ api_type \in {245, 254} =>
            /\ ret.kind = "Ok(Some)"
            /\ ret.payload = SubSeq(f, ret.from + 14, ret.from + size - 1)
            /\ zlf.pos = ret.from + size
       /\ api_type \notin {245, 254} =>
            (ret.kind = "Err" /\ ret.err = "InvalidApiTypeField" /\ ret.payload = <<>>)

\* the third record, of type 0x00, is refused after two records were returned
C21_Witness ==
  /\ ret # NoResult /\ ret.op = "next" /\ ret.err = "InvalidApiTypeField"
  /\ ret.from = 2078 /\ Len(arg.file) = 2093

-----------------------------------------------------------------------------
(* main.rs: the run command. The serial port is set up, a task pumps the   *)
(* frames of the device into a tokio broadcast channel, and every TCP      *)
(* connection accepted on port 4905 gets a handle_client task with its own *)
(* Receiver. client_handler.rs holds the same handle_client for proxy.rs.  *)

\* slots of the broadcast channel (broadcast::channel(16) in run); the
\* model keeps the channel small so that a Receiver falls behind
Capacity == 2
\* frames the pump publishes in a run
MaxPublished == 4
\* the peers that connect to port 4905 in a run, in this order
Peers == {1, 2}

\* (changed) the region is sent in its PTI encoding
RegionAsU8_PtiCode(region) == PtiRegionFrom(region)

\* `self.region as u8` of the Region enum of main.rs
RegionAsU8(region) ==
  CASE region = "EU" -> 0
    [] region = "US" -> 1
    [] region = "ANZ" -> 2
    [] region = "HK" -> 3
    [] region = "IN" -> 5
    [] region = "IL" -> 6
    [] region = "RU" -> 7
    [] region = "CN" -> 8
    [] region = "USLR" -> 9
    [] region = "EULR" -> 11
    [] region = "JP" -> 32
    [] region = "KR" -> 33

\* the messages of Zniffer::get_version, set_region and start
GetVersionMsg == <<35, 1, 0>>
SetRegionMsg(region) == <<35, 2, 1, RegionAsU8(region)>>
StartMsg == <<35, 4, 0>>

\* (changed) a new Receiver starts at the oldest frame the channel keeps
subscribe_FromOldest == IF tail > Capacity THEN tail - Capacity ELSE 0

\* tx.subscribe(): the Receiver starts after the frames sent so far
subscribe == tail

\* (changed) a Receiver that fell behind is moved to the newest frame
recv_SkipToNewest(next) ==
  IF tail - next > Capacity
  THEN [kind |-> "Lagged", n |-> tail - Capacity - next, next |-> tail - 1]
  ELSE [kind |-> "Ok", n |-> next + 1, next |-> next + 1]

\* rx.recv() with a frame to return (next < tail): the channel keeps the
\* last Capacity frames; a Receiver further behind gets Lagged(n) once and
\* is moved to the oldest frame kept. Frames are named by their number in
\* the order sent, from 1.
recv(next) ==
  IF tail - next > Capacity
  THEN [kind |-> "Lagged", n |-> tail - Capacity - next, next |-> tail - Capacity]
  ELSE [kind |-> "Ok", n |-> next + 1, next |-> next + 1]

\* what a handle_client task wrote or logged: frame n, or "skipped n messages"
Wrote(n) == [lagged |-> FALSE, n |-> n]
Skipped(n) == [lagged |-> TRUE, n |-> n]

\* no connection from this peer yet. Of a connection: the handle_client
\* task, the number of frames sent when its Receiver subscribed (history),
\* the Receiver's position, what the task wrote and logged (history), the
\* peer's side of the socket and the bytes the peer sent that are unread
NoClient ==
  [task |-> "none", subscribed |-> 0, next |-> 0, got |-> <<>>, peer |-> "open", unread |-> 0]

\* run(port_name, region) is called; `peers` are the peers that will connect
run(peers) ==
  /\ ZnInit /\ PtiIdle /\ RtIdle /\ FnIdle /\ LibIdle
  /\ zniffer \in {[stage |-> "get_version", region |-> r, written |-> <<>>, pump |-> "none",
                    peers |-> peers] : r \in {"EU", "KR"}}
  /\ tail = 0
  /\ clients = [c \in Peers |-> NoClient]

InitRun == run(Peers)

\* zniffer.get_version(): write_all of the message, then the answer is read
\* until a read times out; a failed write is logged by run, which goes on
RunGetVersion ==
  /\ zniffer.stage = "get_version"
  /\ zniffer' = [zniffer EXCEPT !.written = Append(@, GetVersionMsg), !.stage = "set_region"]
  /\ UNCHANGED <<tail, clients, znVars, batchVars, ptiVars, rtVars, fnVars, libVars>>

\* zniffer.set_region()
RunSetRegion ==
  /\ zniffer.stage = "set_region"
  /\ zniffer' = [zniffer EXCEPT !.written = Append(@, SetRegionMsg(zniffer.region)),
                                !.stage = "start"]
  /\ UNCHANGED <<tail, clients, znVars, batchVars, ptiVars, rtVars, fnVars, libVars>>

\* zniffer.start(): write_all of the message, then bytes are read and
\* dropped until a read times out
RunStart ==
  /\ zniffer.stage = "start"
  /\ zniffer' = [zniffer EXCEPT !.written = Append(@, StartMsg), !.stage = "spawn"]
  /\ UNCHANGED <<tail, clients, znVars, batchVars, ptiVars, rtVars, fnVars, libVars>>

\* broadcast::channel(16), tokio::spawn of the pump, TcpListener::bind
RunSpawn ==
  /\ zniffer.stage = "spawn"
  /\ zniffer' = [zniffer EXCEPT !.pump = "running", !.stage = "accept"]
  /\ UNCHANGED <<tail, clients, znVars, batchVars, ptiVars, rtVars, fnVars, libVars>>

\* (changed) run drops the Receiver that broadcast::channel returned
receiver_count_RxDropped(cl) ==
  Cardinality({c \in Peers : cl[c].task = "running"})

\* the Receivers of the channel that are alive: `_rx`, which run binds and
\* keeps for as long as it runs, and the Receiver of every handle_client
\* task that has not returned
receiver_count(cl) ==
  1 + Cardinality({c \in Peers : cl[c].task = "running"})

\* the pump: zniffer.get_frames() returned Ok(frame); tx_clone.send(frame),
\* which does not wait for any Receiver, is Ok when a Receiver is alive
\* and an error otherwise; on the error the task returns
Publish ==
  /\ zniffer.stage = "accept" /\ zniffer.pump = "running"
  /\ tail < MaxPublished
  /\ IF receiver_count(clients) > 0
     THEN tail' = tail + 1 /\ UNCHANGED zniffer
     ELSE zniffer' = [zniffer EXCEPT !.pump = "send_failed"] /\ UNCHANGED tail
  /\ UNCHANGED <<clients, znVars, batchVars, ptiVars, rtVars, fnVars, libVars>>

\* the pump: zniffer.get_frames() returned Err(false) after a read error
\* other than a timeout; the task returns
PumpStops ==
  /\ zniffer.stage = "accept" /\ zniffer.pump = "running"
  /\ zniffer' = [zniffer EXCEPT !.pump = "stopped"]
  /\ UNCHANGED <<tail, clients, znVars, batchVars, ptiVars, rtVars, fnVars, libVars>>

\* listener.accept(), tx.subscribe(), tokio::spawn(handle_client)
Accept(c) ==
  /\ zniffer.stage = "accept"
  /\ c \in zniffer.peers /\ clients[c].task = "none"
  /\ \A d \in zniffer.peers : d < c => clients[d].task # "none"
  /\ clients' = [clients EXCEPT ![c] =
       [task |-> "running", subscribed |-> tail, next |-> subscribe, got |-> <<>>,
        peer |-> "open", unread |-> 0]]
  /\ UNCHANGED <<zniffer, tail, znVars, batchVars, ptiVars, rtVars, fnVars, libVars>>

\* handle_client, the branch `result = rx.recv()`: a frame is written to
\* the stream as a PTI packet, and a failed write returns; Lagged(n) is
\* logged
on_recv(client, r, write_ok) ==
  CASE r.kind = "Lagged" -> [client EXCEPT !.next = r.next, !.got = Append(@, Skipped(r.n))]
    [] r.kind = "Ok" /\ write_ok ->
         [client EXCEPT !.next = r.next, !.got = Append(@, Wrote(r.n))]
    [] OTHER -> [client EXCEPT !.next = r.next, !.task = "done"]

\* (changed) an end of file is taken for data
on_readable_IgnoresEof(client) ==
  CASE client.peer = "error" -> [client EXCEPT !.task = "done"]
    [] client.unread > 0 -> [client EXCEPT !.unread = @ - 1]
    [] OTHER -> client

\* handle_client, the branch `result = stream.readable()`: an error of
\* readable() or try_read returns, Ok(0) returns, a byte read is dropped,
\* WouldBlock is ignored
on_readable(client) ==
  CASE client.peer = "error" -> [client EXCEPT !.task = "done"]
    [] client.unread > 0 -> [client EXCEPT !.unread = @ - 1]
    [] client.peer = "eof" -> [client EXCEPT !.task = "done"]
    [] OTHER -> client

\* select! takes the recv branch; write_all to a stream whose peer is gone
\* succeeds or fails
HandleRecv(c) ==
  /\ clients[c].task = "running"
  /\ clients[c].next < tail
  /\ \E write_ok \in IF clients[c].peer = "open" THEN {TRUE} ELSE BOOLEAN :
       clients' = [clients EXCEPT ![c] = on_recv(@, recv(clients[c].next), write_ok)]
  /\ UNCHANGED <<zniffer, tail, znVars, batchVars, ptiVars, rtVars, fnVars, libVars>>

\* select! takes the readable branch
HandleReadable(c) ==
  /\ clients[c].task = "running"
  /\ clients' = [clients EXCEPT ![c] = on_readable(@)]
  /\ UNCHANGED <<zniffer, tail, znVars, batchVars, ptiVars, rtVars, fnVars, libVars>>

\* the peer sends a byte, closes the connection, or the connection breaks
PeerSends(c) ==
  /\ clients[c].task = "running"
  /\ clients[c].peer = "open" /\ clients[c].unread = 0
  /\ clients' = [clients EXCEPT ![c].unread = 1]
  /\ UNCHANGED <<zniffer, tail, znVars, batchVars, ptiVars, rtVars, fnVars, libVars>>

PeerCloses(c) ==
  /\ clients[c].task = "running"
  /\ clients[c].peer = "open"
  /\ clients' = [clients EXCEPT ![c].peer = "eof"]
  /\ UNCHANGED <<zniffer, tail, znVars, batchVars, ptiVars, rtVars, fnVars, libVars>>

PeerFails(c) ==
  /\ clients[c].task = "running"
  /\ clients[c].peer = "open"
  /\ clients' = [clients EXCEPT ![c].peer = "error"]
  /\ UNCHANGED <<zniffer, tail, znVars, batchVars, ptiVars, rtVars, fnVars, libVars>>

NextRun ==
  \/ RunGetVersion \/ RunSetRegion \/ RunStart \/ RunSpawn
  \/ Publish \/ PumpStops
  \/ \E c \in Peers :
       Accept(c) \/ HandleRecv(c) \/ HandleReadable(c) \/ PeerSends(c) \/ PeerCloses(c) \/ PeerFails(c)

SpecRun == InitRun /\ [][NextRun]_vars

\* the tasks run on the worker threads of the multi-thread runtime of
\* #[tokio::main], and select! polls its branches in random order: a
\* branch that stays ready is taken
SpecClientFair ==
  run({1}) /\ [][NextRun]_vars /\ \A c \in Peers : WF_vars(HandleReadable(c))

\* the frames a task wrote, in the order written
RECURSIVE FramesOf(_)
FramesOf(got) ==
  IF got = <<>> THEN <<>>
  ELSE IF got[1].lagged THEN FramesOf(Tail(got))
  ELSE <<got[1].n>> \o FramesOf(Tail(got))

\* C22: what a subscriber observes is a subsequence, in publication order,
\* of the frames published after it subscribed: every frame written was
\* published after the subscription, the frames written increase strictly
\* (none twice, no two in the opposite order), and a subscriber that was
\* never told of a lag has received every frame up to the last one written,
\* without a gap.
C22_SubsequenceInOrder ==
  \A c \in Peers :
    LET f == FramesOf(clients[c].got) IN
    /\ \A i \in 1..Len(f) : clients[c].subscribed < f[i] /\ f[i] <= tail
    /\ \A i \in 1..Len(f) : \A j \in 1..Len(f) : i < j => f[i] < f[j]
    /\ (\A k \in 1..Len(clients[c].got) : ~clients[c].got[k].lagged) =>
         \A i \in 1..Len(f) : f[i] = clients[c].subscribed + i

\* a subscriber that subscribed after the first frame has received frames 2,
\* 3 and 4 while another one, slower, was told of a lag
C22_Witness ==
  /\ clients[2].subscribed = 1
  /\ clients[2].got = <<Wrote(2), Wrote(3), Wrote(4)>>
  /\ \E i \in 1..Len(clients[1].got) : clients[1].got[i].lagged

\* the position a Receiver is at after `got`, from position `from`, when
\* every frame written is the one right after the position and a lag of n
\* skips n frames; -1 when `got` is not of that form
RECURSIVE Walk(_, _)
Walk(got, from) ==
  IF from < 0 THEN -1
  ELSE IF got = <<>> THEN from
  ELSE IF got[1].lagged
       THEN Walk(Tail(got), IF got[1].n > 0 THEN from + got[1].n ELSE -1)
  ELSE Walk(Tail(got), IF got[1].n = from + 1 THEN from + 1 ELSE -1)

\* C23: a subscriber that overflows loses the oldest frames it had not
\* received and is told their exact number: after "skipped n" the Receiver
\* is n frames further, each frame written is the one right after the frame
\* written before it or after the frames skipped, and the frames skipped
\* were overwritten in the channel (only the frame whose write failed,
\* which ends the task, is received and not written). The lag does not end
\* the task (the task of a connected peer is running after a lag), and
\* while a subscriber is behind the producer can publish and another
\* subscriber can receive.
C23_LagSkipsOldest ==
  \A c \in Peers :
    LET client == clients[c] IN
    /\ \/ Walk(client.got, client.subscribed) = client.next
       \/ /\ client.task = "done" /\ client.peer # "open"
          /\ Walk(client.got, client.subscribed) = client.next - 1
    /\ client.next <= tail
    /\ \A i \in 1..Len(client.got) :
         client.got[i].lagged =>
           Walk(SubSeq(client.got, 1, i), client.subscribed) <= tail - Capacity
    /\ (client.got # <<>> /\ client.got[Len(client.got)].lagged /\ client.peer = "open") =>
         client.task = "running"
    /\ (client.task = "running" /\ tail - client.next > Capacity) =>
         /\ (zniffer.pump = "running" /\ tail < MaxPublished) => ENABLED Publish
         /\ \A d \in Peers \ {c} :
              (clients[d].task = "running" /\ clients[d].next < tail) => ENABLED HandleRecv(d)

\* C38: the pump never stops publishing for want of a consumer: no send
\* fails, with no consumer connected or after every consumer's task has
\* returned the pump can still publish the next frame, and a consumer that
\* connected later and has caught up without a lag has been written every
\* frame published since it connected.
C38_PublishWithoutConsumers ==
  /\ zniffer.pump # "send_failed"
  /\ (/\ zniffer.pump = "running" /\ tail < MaxPublished
      /\ \A c \in Peers : clients[c].task # "running") =>
       ENABLED (Publish /\ tail' = tail + 1)
  /\ \A c \in Peers :
       (/\ clients[c].task = "running" /\ clients[c].next = tail
        /\ \A k \in 1..Len(clients[c].got) : ~clients[c].got[k].lagged) =>
         FramesOf(clients[c].got) = [i \in 1..(tail - clients[c].subscribed) |->
                                       clients[c].subscribed + i]

\* frame 1 was published with no consumer connected; the first consumer
\* was written frame 2 and its task returned; frame 3 was published, then
\* a second consumer connected and was written frame 4
C38_Witness ==
  /\ clients[1].subscribed = 1 /\ clients[1].got = <<Wrote(2)>>
  /\ clients[1].task = "done" /\ clients[1].next = 2
  /\ clients[2].subscribed = 3 /\ clients[2].got = <<Wrote(4)>>
  /\ clients[2].task = "running"
  /\ zniffer.pump = "running"

\* a subscriber received frame 1, fell behind while frames 2, 3 and 4 were
\* published, was told that 1 frame was skipped and then received 3 and 4
C23_Witness ==
  /\ clients[1].got = <<Wrote(1), Skipped(1), Wrote(3), Wrote(4)>>
  /\ clients[1].task = "running"

C29_LengthField ==
  (ret # NoResult /\ ret.kind = "Ok(Vec<u8>)") =>
    LET v == ret.value
        length == v[2] + 256 * v[3]
    IN /\ Len(v) = Len(arg.frame.payload) + 22
       /\ length = Len(v) - 2
       /\ v[1] = 91
       /\ length + 2 <= Len(v) /\ v[length + 2] = 93
       /\ v[4] = 2 /\ v[5] = 0

-----------------------------------------------------------------------------
(* crates/core/src/storage/db.rs: the frame index, an in-memory SQLite     *)
(* table `frames` with id INTEGER PRIMARY KEY                              *)

\* rows added in a run
MaxRows == 3

\* the DbFrame values passed to add_frame (id apart): the frame of the
\* parser's test, a frame with a negative rssi and no payload, one with
\* the values of the test of db.rs
DbFrames ==
  {[timestamp |-> 28110, speed |-> 0, rssi |-> -99, channel |-> 1,
    home_id |-> 305419896, src_node_id |-> 1, dst_node_id |-> 2, payload |-> <<226, 234, 54>>],
   [timestamp |-> 0, speed |-> 2, rssi |-> -128, channel |-> 0,
    home_id |-> 305419896, src_node_id |-> 1, dst_node_id |-> 2, payload |-> <<>>],
   [timestamp |-> 1627849800, speed |-> 5, rssi |-> -100, channel |-> 60,
    home_id |-> 12345, src_node_id |-> 1, dst_node_id |-> 2, payload |-> <<1, 2, 3, 4>>]}

WithId(frame, id) ==
  [id |-> id, timestamp |-> frame.timestamp, speed |-> frame.speed, rssi |-> frame.rssi,
   channel |-> frame.channel, home_id |-> frame.home_id, src_node_id |-> frame.src_node_id,
   dst_node_id |-> frame.dst_node_id, payload |-> frame.payload]

\* SqliteFrameDatabase::new(): the table is empty
SqliteFrameDatabase_new == <<>>

\* add_frame(&self, frame): INSERT without the id column; SQLite gives the
\* row the id after the largest one in the table, 1 in an empty table
add_frame(rows, frame) == Append(rows, WithId(frame, Len(rows) + 1))

\* get_frame(&self, id): SELECT ... WHERE id = ?1; the first row found is
\* returned as a DbFrame with `payload: vec![]`
get_frame(rows, id) ==
  IF \E i \in 1..Len(rows) : rows[i].id = id
  THEN LET row == rows[CHOOSE i \in 1..Len(rows) : rows[i].id = id] IN
       [kind |-> "Some", frame |-> [row EXCEPT !.payload = <<>>]]
  ELSE [kind |-> "None"]

InitDb ==
  /\ ZnInit /\ PtiIdle /\ RtIdle /\ RunIdle
  /\ arg = [fn |-> "SqliteFrameDatabase"]
  /\ ret = NoResult
  /\ zlf = [open |-> FALSE, pos |-> 0, frame_counter |-> 0]
  /\ db = [rows |-> SqliteFrameDatabase_new, added |-> <<>>]
  /\ library = {}
  /\ port = [rx |-> <<>>, returned |-> <<>>]
  /\ app = NoApp

\* db.add_frame(db_frame): App::try_new passes its frame counter as id (1,
\* 2, ...), the test of db.rs passes 0
AddFrame ==
  /\ arg.fn = "SqliteFrameDatabase"
  /\ Len(db.rows) < MaxRows
  /\ \E f \in DbFrames : \E id \in {0, Len(db.added) + 1} :
       db' = [rows |-> add_frame(db.rows, WithId(f, id)),
              added |-> Append(db.added, WithId(f, id))]
  /\ UNCHANGED <<arg, ret, zlf, library, port, app, runVars, znVars, batchVars, ptiVars, rtVars>>

\* app.db.get_frame(frame_id as u64)
GetFrame ==
  /\ arg.fn = "SqliteFrameDatabase"
  /\ \E id \in 0..(MaxRows + 1) :
       ret' = [kind |-> get_frame(db.rows, id).kind, op |-> "get_frame", id |-> id,
               stored |-> Len(db.rows), value |-> get_frame(db.rows, id)]
  /\ UNCHANGED <<arg, zlf, db, library, port, app, runVars, znVars, batchVars, ptiVars, rtVars>>

NextDb == AddFrame \/ GetFrame

SpecDb == InitDb /\ [][NextDb]_vars

\* C26 (as stated): get_frame(id) returns the frame stored under id - the
\* id-th frame added, as the database numbers the frames from 1 in the
\* order added - with the timestamp, speed, rssi, channel and payload passed
\* to add_frame, and None for an id under which no frame is stored when it
\* is called.
C26_GetFrameReturnsAdded ==
  (ret # NoResult /\ ret.op = "get_frame") =>
    IF ret.id \in 1..ret.stored
    THEN /\ ret.kind = "Some"
         /\ ret.value.frame.id = ret.id
         /\ ret.value.frame.timestamp = db.added[ret.id].timestamp
         /\ ret.value.frame.speed = db.added[ret.id].speed
         /\ ret.value.frame.rssi = db.added[ret.id].rssi
         /\ ret.value.frame.channel = db.added[ret.id].channel
         /\ ret.value.frame.payload = db.added[ret.id].payload
    ELSE ret.kind = "None"

-----------------------------------------------------------------------------
(* The frame decoders: DecoderLibrary (src/frame/frame_decoder.rs; Decoder *)
(* of src/frame/decoder.rs is the same code), ZWaveFrameDecoder            *)
(* (src/frame/zwave_frame_decoder.rs) and ZnifferFrameDecoder              *)
(* (crates/core/src/decoder/zniffer_frame_decoder.rs). A Segment a..b is   *)
(* the record [start |-> a, end |-> b]; frame.data[i] is data[i + 1].      *)

Segment(start, end) == [start |-> start, end |-> end]

\* the field! macro with an explicit range; `sub` holds the fields of the
\* DecodedChunk of FieldType::SubFrame, and is empty for the other types
field(short_name, start, end, field_type, sub) ==
  [short_name |-> short_name, segment |-> Segment(start, end), field_type |-> field_type,
   sub |-> sub]

\* the field! macro without an end: the size follows from the type
field_auto(short_name, start, field_type) ==
  field(short_name, start,
        start + (CASE field_type \in {"UInt8", "Int8"} -> 1
                   [] field_type \in {"UInt16", "UInt16BE", "Int16", "Int16BE"} -> 2
                   [] OTHER -> 4),
        field_type, <<>>)

DecodedNone == [kind |-> "None"]
DecodedSome(fields) == [kind |-> "Some", fields |-> fields]
\* frame.data[5] on data of fewer than 6 bytes: index out of bounds
DecodePanic == [kind |-> "Panic"]

\* ZWaveFrameDecoder::decode_frame(&self, _library, _frame, segment)
ZWaveFrameDecoder_decode_frame(decoders, data, segment) ==
  DecodedSome(<<field("data", segment.start, segment.end, "Bytes", <<>>)>>)

RECURSIVE DecoderLibrary_decode(_, _, _, _)

\* ZnifferFrameDecoder::decode_frame(&self, decoder, frame, segment)
ZnifferFrameDecoder_decode_frame(decoders, data, segment) ==
  IF Len(data) < 6 THEN DecodePanic
  ELSE
  LET zwave_frame_decoder ==
        DecoderLibrary_decode(decoders, "ZWaveFrameDecoder", data, Segment(6, data[6] + 6))
  IN
  IF zwave_frame_decoder.kind # "Some" THEN zwave_frame_decoder
  ELSE DecodedSome(<<
         field_auto("channel", 0, "UInt8"),
         field_auto("region", 1, "UInt8"),
         field_auto("rssi", 2, "Int8"),
         field_auto("start_of_data", 3, "UInt16"),
         field_auto("length", 5, "UInt8"),
         field("zwave_frame", 6, data[6] + 6, "SubFrame", zwave_frame_decoder.fields)>>)

\* (changed) a name that is not registered is decoded by ZWaveFrameDecoder
DecoderLibrary_decode_Fallback(decoders, decoder_name, data, segment) ==
  CASE decoder_name = "ZnifferFrameDecoder" /\ decoder_name \in decoders ->
         ZnifferFrameDecoder_decode_frame(decoders, data, segment)
    [] OTHER -> ZWaveFrameDecoder_decode_frame(decoders, data, segment)

\* DecoderLibrary::decode(&self, decoder_name, frame, segment):
\* self.decoders.get(decoder_name)?.decode_frame(self, frame, segment)
DecoderLibrary_decode(decoders, decoder_name, data, segment) ==
  CASE decoder_name \notin decoders -> DecodedNone
    [] decoder_name = "ZnifferFrameDecoder" ->
         ZnifferFrameDecoder_decode_frame(decoders, data, segment)
    [] decoder_name = "ZWaveFrameDecoder" ->
         ZWaveFrameDecoder_decode_frame(decoders, data, segment)

\* decoder_name() of the decoders
DecoderNames == {"ZnifferFrameDecoder", "ZWaveFrameDecoder"}

\* frame.data: the header of the decoder's test with 2 bytes of data
\* (length 2), with 1 byte of data only (length 0x12), without data (length
\* 0), a header that ends before the length, no byte
MacFrameData ==
  {<<32, 0, 157, 33, 3, 2, 226, 234>>,
   <<32, 0, 157, 33, 3, 18, 226>>,
   <<32, 0, 157, 33, 3, 0>>,
   <<32, 0, 157, 33, 3>>,
   <<>>}

\* the segments asked for: the whole data, the data after the header, a
\* part of the header, a range that ends after the data
SegmentsOf(data) ==
  {Segment(0, Len(data)), Segment(2, 4), Segment(0, Len(data) + 2)}
  \cup (IF Len(data) >= 6 THEN {Segment(6, Len(data))} ELSE {})

InitDecode ==
  /\ ZnInit /\ PtiIdle /\ RtIdle /\ RunIdle
  /\ arg \in {[fn |-> "DecoderLibrary", data |-> d] : d \in MacFrameData}
  /\ ret = NoResult
  /\ zlf = [open |-> FALSE, pos |-> 0, frame_counter |-> 0]
  /\ db = [rows |-> <<>>, added |-> <<>>]
  /\ library = {}
  /\ port = [rx |-> <<>>, returned |-> <<>>]
  /\ app = NoApp

\* library.register_decoder(Box::new(decoder))
RegisterDecoder ==
  /\ arg.fn = "DecoderLibrary"
  /\ \E name \in DecoderNames : library' = library \cup {name}
  /\ UNCHANGED <<arg, ret, zlf, db, port, app, runVars, znVars, batchVars, ptiVars, rtVars>>

\* library.decode(decoder_name, &frame, segment)
Decode ==
  /\ arg.fn = "DecoderLibrary"
  /\ \E name \in DecoderNames \cup {"SnifferFrameDecoder"} : \E segment \in SegmentsOf(arg.data) :
       LET r == DecoderLibrary_decode(library, name, arg.data, segment) IN
       ret' = [kind |-> r.kind, op |-> "decode", name |-> name, segment |-> segment,
               registered |-> library, value |-> r]
  /\ UNCHANGED <<arg, zlf, db, library, port, app, runVars, znVars, batchVars, ptiVars, rtVars>>

NextDecode == RegisterDecoder \/ Decode

SpecDecode == InitDecode /\ [][NextDecode]_vars

\* C27: decode returns None for a name under which no decoder is
\* registered; for a registered name it returns what that decoder returns:
\* ZWaveFrameDecoder one field over the segment asked for, and
\* ZnifferFrameDecoder, which looks ZWaveFrameDecoder up in the same
\* library, None when that one is not registered and otherwise its header
\* fields and, as sub-frame, the chunk of ZWaveFrameDecoder for the range
\* 6..6+length.
C27_LookupByName ==
  (ret # NoResult /\ ret.op = "decode") =>
    LET data == arg.data IN
    /\ ret.name \notin ret.registered => ret.kind = "None"
    /\ (ret.name = "ZWaveFrameDecoder" /\ ret.name \in ret.registered) =>
         /\ ret.kind = "Some" /\ Len(ret.value.fields) = 1
         /\ ret.value.fields[1].segment = ret.segment
    /\ (ret.name = "ZnifferFrameDecoder" /\ ret.name \in ret.registered /\ Len(data) >= 6) =>
         IF "ZWaveFrameDecoder" \notin ret.registered THEN ret.kind = "None"
         ELSE /\ ret.kind = "Some" /\ Len(ret.value.fields) = 6
              /\ ret.value.fields[6].field_type = "SubFrame"
              /\ Len(ret.value.fields[6].sub) = 1
              /\ ret.value.fields[6].sub[1].segment = [start |-> 6, end |-> 6 + data[6]]

\* ZnifferFrameDecoder is registered and ZWaveFrameDecoder is not: decoding
\* a whole frame through the library gives None
C27_Witness ==
  /\ ret # NoResult /\ ret.op = "decode" /\ ret.name = "ZnifferFrameDecoder"
  /\ ret.registered = {"ZnifferFrameDecoder"} /\ Len(arg.data) = 8 /\ ret.kind = "None"

\* ranges a..b and c..d share a byte
Overlap(r1, r2) == r1.start < r2.end /\ r2.start < r1.end /\ r1.start < r1.end /\ r2.start < r2.end
Inside(r1, r2) == r2.start <= r1.start /\ r1.end <= r2.end

\* the fields of a chunk do not overlap one another and lie inside `range`
ChunkOk(fields, range) ==
  /\ \A i \in 1..Len(fields) : Inside(fields[i].segment, range)
  /\ \A i \in 1..Len(fields) : \A j \in 1..Len(fields) :
       i # j => ~Overlap(fields[i].segment, fields[j].segment)

\* C28 (as stated): when a decoder is given a segment of the frame's data,
\* the fields of the chunk it returns do not overlap one another and lie
\* inside the segment asked for and inside the frame's data; the fields of
\* a sub-frame lie inside the field that holds it.
C28_FieldRanges ==
  (ret # NoResult /\ ret.op = "decode" /\ ret.kind = "Some"
     /\ Inside(ret.segment, Segment(0, Len(arg.data)))) =>
    LET fields == ret.value.fields IN
    /\ ChunkOk(fields, ret.segment)
    /\ ChunkOk(fields, Segment(0, Len(arg.data)))
    /\ \A i \in 1..Len(fields) :
         fields[i].field_type = "SubFrame" =>
           /\ ChunkOk(fields[i].sub, fields[i].segment)
           /\ ChunkOk(fields[i].sub, Segment(0, Len(arg.data)))

\* C32 (as stated): decoding a truncated frame with the Zniffer envelope
\* decoder (data of fewer than 6 bytes, or of fewer than 6 + length bytes)
\* returns None: it neither fails nor returns a chunk.
C32_TruncatedIsNone ==
  (ret # NoResult /\ ret.op = "decode"
     /\ ret.name = "ZnifferFrameDecoder" /\ DecoderNames \subseteq ret.registered
     /\ ret.segment = Segment(0, Len(arg.data))
     /\ (Len(arg.data) < 6 \/ Len(arg.data) < 6 + arg.data[6])) =>
    ret.kind = "None"

-----------------------------------------------------------------------------
(* src/zniffer_parser.rs of the zniff-rs binary and the serial pump of
   run: Zniffer::get_frames of src/main.rs.  This parser takes a whole
   Vec<u8> and has no result for invalid input. *)

\* reads that return data between two timeouts, and timeouts
MaxReads == 2
MaxTimeouts == 2

\* the frame of Parser::new() and reset(): Frame::default(), the region as
\* the byte the parser stores
zniffer_parser_FrameDefault == [FrameDefault EXCEPT !.region = 0]

\* zniffer_parser::Parser::new()
zniffer_parser_new ==
  [state |-> "AwaitStartOfFrame", command_id |-> 0, length |-> 0,
   payload_count |-> 0, frame_type |-> 0, timestamp_state |-> FALSE, rssi |-> 0,
   frame |-> zniffer_parser_FrameDefault]

\* zniffer_parser::Parser::reset(&mut self)
zniffer_parser_reset(p) ==
  [p EXCEPT !.state = "AwaitStartOfFrame", !.command_id = 0, !.length = 0,
            !.payload_count = 0, !.frame_type = 0, !.timestamp_state = FALSE,
            !.rssi = 0, !.frame = zniffer_parser_FrameDefault]

\* ParserResult::ValidCommand { id }
zniffer_parser_ValidCommand(id) == [kind |-> "ValidCommand", id |-> id]

\* `self.payload_count -= 1` at 0: a panic where overflow checks are
\* compiled in
zniffer_parser_Panic == [kind |-> "Panic"]

\* the body of `for value in input` of zniffer_parser::Parser::parse: the
\* parser after `value` and the result returned, IncompleteFrame where the
\* loop goes on
zniffer_parser_match(p, value, overflow_checks) ==
  CASE p.state = "AwaitStartOfFrame" ->
         IF value = SOF_COMMAND THEN Ret([p EXCEPT !.state = "AwaitCommandID"], IncompleteFrame)
         ELSE IF value = SOF_FRAME THEN Ret([p EXCEPT !.state = "AwaitType"], IncompleteFrame)
         ELSE Ret(p, IncompleteFrame)
    [] p.state = "AwaitCommandID" ->
         IF IsCommandId(value)
         THEN Ret([p EXCEPT !.command_id = value, !.state = "AwaitLength"], IncompleteFrame)
         ELSE Ret(zniffer_parser_reset(p), IncompleteFrame)
    [] p.state = "AwaitType" ->
         IF IsFrameType(value)
         THEN Ret([p EXCEPT !.frame_type = value, !.state = "AwaitTimestamp"], IncompleteFrame)
         ELSE Ret(zniffer_parser_reset(p), IncompleteFrame)
    [] p.state = "AwaitTimestamp" ->
         IF p.timestamp_state = FALSE
         THEN Ret([p EXCEPT !.frame.timestamp = (value * 256) % 65536,
                            !.timestamp_state = TRUE], IncompleteFrame)
         ELSE Ret([p EXCEPT !.frame.timestamp = BitOr(p.frame.timestamp, value),
                            !.timestamp_state = FALSE,
                            !.state = "AwaitChannelAndSpeed"], IncompleteFrame)
    [] p.state = "AwaitChannelAndSpeed" ->
         Ret([p EXCEPT !.frame.channel = value \div 32,
                       !.frame.speed = BitAnd(value, 31),
                       !.state = "AwaitRegion"], IncompleteFrame)
    [] p.state = "AwaitRegion" ->
         Ret([p EXCEPT !.frame.region = value, !.state = "AwaitRssi"], IncompleteFrame)
    [] p.state = "AwaitRssi" ->
         Ret([p EXCEPT !.frame.rssi = value, !.state = "AwaitStartofDataOne"], IncompleteFrame)
    [] p.state = "AwaitStartofDataOne" ->
         IF value = 33
         THEN Ret([p EXCEPT !.state = "AwaitStartofDataTwo"], IncompleteFrame)
         ELSE Ret(zniffer_parser_reset(p), IncompleteFrame)
    [] p.state = "AwaitStartofDataTwo" ->
         IF value = 3
         THEN Ret([p EXCEPT !.state = "AwaitLength"], IncompleteFrame)
         ELSE Ret(zniffer_parser_reset(p), IncompleteFrame)
    [] p.state = "AwaitLength" ->
         Ret([p EXCEPT !.length = value, !.payload_count = value,
                       !.state = "AwaitPayload"], IncompleteFrame)
    [] p.state = "AwaitPayload" ->
         LET q == [p EXCEPT !.frame.payload = Append(@, value),
                            !.payload_count = (@ - 1) % 256] IN
         IF p.payload_count = 0 /\ overflow_checks
         THEN Ret([p EXCEPT !.frame.payload = Append(@, value)], zniffer_parser_Panic)
         ELSE IF q.payload_count < 1
         THEN IF IsFrameType(q.frame_type)
              THEN Ret(zniffer_parser_reset(q), ValidFrame(q.frame))
              ELSE Ret(zniffer_parser_reset(q), zniffer_parser_ValidCommand(q.command_id))
         ELSE Ret(q, IncompleteFrame)

\* zniffer_parser::Parser::parse(&mut self, input: Vec<u8>) -> ParserResult:
\* returns from inside the loop at the first complete frame or command;
\* the bytes of `input` after it are dropped with the Vec
RECURSIVE zniffer_parser_parse(_, _, _)
zniffer_parser_parse(p, input, overflow_checks) ==
  IF input = <<>> THEN Ret(p, IncompleteFrame)
  ELSE LET o == zniffer_parser_match(p, Head(input), overflow_checks) IN
       IF o.result # IncompleteFrame THEN o
       ELSE zniffer_parser_parse(o.parser, Tail(input), overflow_checks)

\* (changed) timeout() that leaves the parser as it is
zniffer_parser_timeout_KeepsState(p) == p

\* zniffer_parser::Parser::timeout(&mut self)
zniffer_parser_timeout(p) == zniffer_parser_reset(p)

\* the bytes of a data frame of type 1 on the serial line
Wire(frame) ==
  <<SOF_FRAME, 1, frame.timestamp \div 256, frame.timestamp % 256,
    frame.channel * 32 + frame.speed, frame.region, frame.rssi, 33, 3,
    Len(frame.payload)>> \o frame.payload

\* the frames the device sends
PumpFrames ==
  {[region |-> 0, channel |-> 1, speed |-> 0, timestamp |-> 28110, rssi |-> 157,
    payload |-> <<33>>],
   [region |-> 1, channel |-> 0, speed |-> 2, timestamp |-> 3, rssi |-> 33,
    payload |-> <<35, 1>>]}

\* where a read may cut a frame
Cuts == {3, 10}

\* what one port.read returns: a frame, the part of a frame before or
\* after a cut, two frames at once, a command without data, a stray byte
PumpChunks ==
  {Wire(f) : f \in PumpFrames}
  \cup {SubSeq(Wire(f), 1, k) : f \in PumpFrames, k \in Cuts}
  \cup {SubSeq(Wire(f), k + 1, Len(Wire(f))) : f \in PumpFrames, k \in Cuts}
  \cup {Wire(f) \o Wire(g) : f, g \in PumpFrames}
  \cup {<<SOF_COMMAND, 4, 0>>, <<0>>}

\* run has spawned the pump: get_version left the parser reset by the
\* timeout that ends it, set_region and start do not use it.
\* overflow_checks is the build: true for dev, false for release
InitPump ==
  /\ parser = zniffer_parser_new
  /\ result = NoResult /\ fed = <<>> /\ outs = <<>>
  /\ ref = new /\ outB = <<>> /\ outR = <<>> /\ calls = 0
  /\ PtiIdle /\ RtIdle /\ FnIdle
  /\ zniffer \in {[stage |-> "accept", region |-> "EU",
                   written |-> <<GetVersionMsg, SetRegionMsg("EU"), StartMsg>>,
                   pump |-> "running", peers |-> {}, overflow_checks |-> b] :
                  b \in BOOLEAN}
  /\ tail = 0
  /\ clients = [c \in Peers |-> NoClient]
  /\ db = [rows |-> <<>>, added |-> <<>>]
  /\ library = {}
  /\ port = [rx |-> <<>>, returned |-> <<>>, reads |-> 0, timeouts |-> 0,
             dropped |-> FALSE]
  /\ app = NoApp

\* get_frames, `Ok(bytes_read)`: the bytes read are parsed; ValidFrame
\* returns the frame to the pump task, which sends it on the channel and
\* calls get_frames again; ValidCommand and IncompleteFrame read on
PumpRead(chunk) ==
  /\ zniffer.pump = "running"
  /\ port.reads < MaxReads
  /\ LET o == zniffer_parser_parse(parser, chunk, zniffer.overflow_checks) IN
     /\ parser' = o.parser
     /\ port' = [port EXCEPT !.rx = @ \o chunk, !.reads = @ + 1,
                             !.returned = IF o.result.kind = "ValidFrame"
                                          THEN Append(@, o.result.frame) ELSE @]
     /\ tail' = IF o.result.kind = "ValidFrame" THEN tail + 1 ELSE tail
     /\ zniffer' = IF o.result.kind = "Panic"
                   THEN [zniffer EXCEPT !.pump = "panicked"] ELSE zniffer
  /\ UNCHANGED <<clients, db, library, app, result, fed, outs, batchVars, ptiVars, rtVars, fnVars>>

\* get_frames, `Err(e) if e.kind() == TimedOut`: self.parser.timeout(),
\* and the loop reads again
PumpTimeout ==
  /\ zniffer.pump = "running"
  /\ port.timeouts < MaxTimeouts
  /\ parser' = zniffer_parser_timeout(parser)
  /\ port' = [rx |-> <<>>, returned |-> <<>>, reads |-> 0, timeouts |-> port.timeouts + 1,
              dropped |-> parser.state # "AwaitStartOfFrame"]
  /\ UNCHANGED <<zniffer, tail, clients, db, library, app, result, fed, outs, batchVars,
                 ptiVars, rtVars, fnVars>>

\* get_frames, any other `Err(e)`: Err(false), and the pump task returns
PumpReadError ==
  /\ zniffer.pump = "running"
  /\ zniffer' = [zniffer EXCEPT !.pump = "stopped"]
  /\ UNCHANGED <<parser, port, app, tail, clients, db, library, result, fed, outs, batchVars,
                 ptiVars, rtVars, fnVars>>

NextPump ==
  \/ \E chunk \in PumpChunks : PumpRead(chunk)
  \/ PumpTimeout
  \/ PumpReadError

SpecPump == InitPump /\ [][NextPump]_vars

IsPrefix(a, b) == Len(a) <= Len(b) /\ SubSeq(b, 1, Len(a)) = a

\* C30: a read timeout calls the parser's timeout() before the next read,
\* which leaves the parser as new (what was parsed of a partial frame is
\* dropped) and the pump reading; and when the bytes read since the last
\* timeout begin with a complete frame, in one read or several, that frame
\* is the first frame returned and published since the timeout, with
\* exactly its own fields and payload.
C30_TimeoutThenCleanFrame ==
  /\ [][port'.timeouts # port.timeouts =>
          /\ parser' = zniffer_parser_new
          /\ zniffer'.pump = "running"
          /\ port'.returned = <<>> /\ tail' = tail]_vars
  /\ [](port.timeouts > 0 /\ port.rx = <<>> /\ zniffer.pump = "running" =>
          /\ parser = zniffer_parser_new
          /\ ENABLED (\E chunk \in PumpChunks : PumpRead(chunk)))
  /\ [](\A f \in PumpFrames :
          IsPrefix(Wire(f), port.rx) =>
            /\ port.returned # <<>>
            /\ port.returned[1] = f
            /\ tail >= Len(port.returned))

\* a partial frame was dropped by a timeout, and the frame that came after
\* it, in two reads, was published
C30_Witness ==
  /\ port.timeouts > 0 /\ port.dropped
  /\ port.reads = 2
  /\ \E f \in PumpFrames : port.rx = Wire(f) /\ port.returned = <<f>>
  /\ tail = 1

\* C40: the remaining-payload counter never underflows: the parser awaits
\* payload only with at least one byte remaining, and no byte read makes
\* the pump fail.
C40_PayloadCounter ==
  /\ zniffer.pump # "panicked"
  /\ parser.state = "AwaitPayload" =>
       (1 <= parser.payload_count /\ parser.payload_count <= parser.length)

\* C36 (as stated): every complete data frame that the reads since the
\* last timeout delivered is returned and published, in order, also when
\* one read returns the end of a frame and the start or all of the next.
C36_EveryFramePublished ==
  \A f \in PumpFrames :
    /\ port.rx = Wire(f) => port.returned = <<f>>
    /\ \A g \in PumpFrames :
         port.rx = Wire(f) \o Wire(g) => port.returned = <<f, g>> /\ tail >= 2

-----------------------------------------------------------------------------
(* src/zw_parser.rs: ZwParser::parse_bytes, the walk of a classic Z-Wave
   frame along the FrameDefinition and the command class catalogue.
   `bits` is the number parsed from the attribute (0 where it does not
   parse); a `key` that is not a hexadecimal number is -1.  Beside the
   fields, the walk records the ranges of the frame it reads and the values
   its byte counter takes. *)

\* ParsedField { name, value, field_type }; value is kept as the bytes or
\* the number that the code formats, and `at` is the index in the frame of
\* the first byte the value is read from (-1: none)
ParsedField(name, value, field_type, at) ==
  [name |-> name, value |-> value, field_type |-> field_type, at |-> at]

\* str::to_uppercase, on the names the define sets hold
to_uppercase(name) ==
  CASE name = "Singlecast" -> "SINGLECAST"
    [] name = "Ack" -> "ACK"
    [] name = "Unknown" -> "UNKNOWN"
    [] OTHER -> name

\* ParsedFrame::new() with the RawFrame field; header_type = 0, byte_counter = 0
ParsedFrame_new(frame) ==
  [fields |-> <<ParsedField("RawFrame", frame, "hex", -1)>>,
   byte_counter |-> 0, header_type |-> 0,
   reads |-> <<>>, cursor |-> <<0>>, panic |-> FALSE]

\* parsed_frame.add_field(name, value, field_type)
add_field(w, name, value, field_type, at) ==
  [w EXCEPT !.fields = Append(@, ParsedField(name, value, field_type, at))]

\* `for sub_param in sub_params`: value[0] >> bit_offset & ((1 << n) - 1) in
\* u8; a shift by 8 or more panics where overflow checks are compiled in and
\* is taken modulo 8 elsewhere
RECURSIVE sub_params_loop(_, _, _, _, _, _)
sub_params_loop(sub_params, value, start, bit_offset, w, overflow_checks) ==
  IF sub_params = <<>> \/ w.panic THEN w
  ELSE
  LET sub_param == Head(sub_params)
      n == sub_param.bits
  IN
  IF n = 0 THEN sub_params_loop(Tail(sub_params), value, start, bit_offset, w, overflow_checks)
  ELSE IF value = <<>>
  THEN [w EXCEPT !.panic = TRUE, !.reads = Append(@, [start |-> start, end |-> start + 1])]
  ELSE IF overflow_checks /\ (bit_offset >= 8 \/ n >= 8) THEN [w EXCEPT !.panic = TRUE]
  ELSE
  LET sub_value == BitAnd(value[1] \div (2 ^ (bit_offset % 8)), (2 ^ (n % 8)) - 1)
      w1 == add_field(w, sub_param.name, sub_value, "bits", start)
      w2 == IF sub_param.name = "HeaderType" THEN [w1 EXCEPT !.header_type = sub_value] ELSE w1
  IN sub_params_loop(Tail(sub_params), value, start, bit_offset + n, w2, overflow_checks)

\* `for param in &base_header.param`
RECURSIVE base_header_params(_, _, _, _)
base_header_params(params, frame, w, overflow_checks) ==
  IF params = <<>> \/ w.panic THEN w
  ELSE
  LET param == Head(params)
      n == param.bits
      start == w.byte_counter
      end == w.byte_counter + n \div 8
  IN
  IF n = 0 THEN base_header_params(Tail(params), frame, w, overflow_checks)
  ELSE IF end > Len(frame) THEN w
  ELSE
  LET value == SubSeq(frame, start + 1, end)
      w1 == [w EXCEPT !.reads = Append(@, [start |-> start, end |-> end])]
      w2 == IF param.has_param
            THEN sub_params_loop(param.param, value, start, 0, w1, overflow_checks)
            ELSE add_field(w1, param.name, value, "bits", start)
      w3 == IF w2.panic THEN w2
            ELSE [w2 EXCEPT !.byte_counter = @ + n \div 8,
                            !.cursor = Append(@, w2.byte_counter + n \div 8)]
  IN base_header_params(Tail(params), frame, w3, overflow_checks)

\* get_header_type_name of parse_bytes, the loop over the defines of a set:
\* "" where the set has no define with the key
RECURSIVE defines_loop(_, _)
defines_loop(define, header_type_id) ==
  IF define = <<>> THEN ""
  ELSE IF Head(define).key = -1 THEN "Unknown"
  ELSE IF Head(define).key = header_type_id THEN Head(define).name
  ELSE defines_loop(Tail(define), header_type_id)

\* get_header_type_name(fd, header_type_id) of parse_bytes
RECURSIVE get_header_type_name(_, _)
get_header_type_name(define_set, header_type_id) ==
  IF define_set = <<>> THEN "Unknown"
  ELSE IF Head(define_set).name # "HeaderType"
  THEN get_header_type_name(Tail(define_set), header_type_id)
  ELSE LET found == defines_loop(Head(define_set).define, header_type_id) IN
       IF found # "" THEN found
       ELSE get_header_type_name(Tail(define_set), header_type_id)

\* `for param in &header.param`
RECURSIVE header_params(_, _, _)
header_params(params, frame, w) ==
  IF params = <<>> THEN w
  ELSE
  LET param == Head(params)
      n == param.bits
      start == w.byte_counter
      end == w.byte_counter + n \div 8
  IN
  IF n = 0 THEN header_params(Tail(params), frame, w)
  ELSE IF end > Len(frame) THEN w
  ELSE header_params(Tail(params), frame,
         [add_field(w, param.param_text, SubSeq(frame, start + 1, end), "bits", start)
            EXCEPT !.reads = Append(@, [start |-> start, end |-> end]),
                   !.byte_counter = end,
                   !.cursor = Append(@, end)])

\* `for header in &self.fd.header`
RECURSIVE headers_loop(_, _, _, _)
headers_loop(header, header_type_name, frame, w) ==
  IF header = <<>> THEN w
  ELSE headers_loop(Tail(header), header_type_name, frame,
         IF Head(header).name = to_uppercase(header_type_name)
         THEN header_params(Head(header).param, frame, w) ELSE w)

\* `for base_header in &self.fd.base_header`
RECURSIVE base_headers_loop(_, _, _, _, _)
base_headers_loop(base_header, fd, frame, w, overflow_checks) ==
  IF base_header = <<>> \/ w.panic THEN w
  ELSE IF Head(base_header).key # "0"
  THEN base_headers_loop(Tail(base_header), fd, frame, w, overflow_checks)
  ELSE
  LET w1 == add_field(w, "HeaderName", Head(base_header).name, "string", -1)
      w2 == base_header_params(Head(base_header).param, frame, w1, overflow_checks)
      header_type_name == get_header_type_name(fd.define_set, w2.header_type)
      w3 == add_field(w2, "HeaderTypeName", to_uppercase(header_type_name), "string", -1)
      w4 == headers_loop(fd.header, header_type_name, frame, w3)
  IN IF w2.panic THEN w2
     ELSE base_headers_loop(Tail(base_header), fd, frame, w4, overflow_checks)

\* format!("VariantGroup_{}", vg.name), on the group names of the catalogue
variant_group_field(name) ==
  CASE name = "vg" -> "VariantGroup_vg"
    [] OTHER -> "VariantGroup_"

\* `for p in children`, with its own byte_counter into payload, which starts
\* at `base` in the frame
RECURSIVE children_loop(_, _, _, _, _)
children_loop(children, payload, base, byte_counter, w) ==
  IF children = <<>> THEN w
  ELSE IF byte_counter >= Len(payload) THEN w
  ELSE
  LET p == Head(children) IN
  CASE p.kind = "Param" /\ p.param_type = "BYTE" ->
         children_loop(Tail(children), payload, base, byte_counter + 1,
           [add_field(w, p.name, payload[byte_counter + 1], "BYTE", base + byte_counter)
              EXCEPT !.reads = Append(@, [start |-> base + byte_counter,
                                          end |-> base + byte_counter + 1]),
                     !.cursor = Append(@, base + byte_counter + 1)])
    [] p.kind = "Param" /\ p.param_type # "BYTE" ->
         children_loop(Tail(children), payload, base, byte_counter, w)
    [] p.kind = "VariantGroup" ->
         children_loop(Tail(children), payload, base, byte_counter,
           add_field(w, variant_group_field(p.name), "present", "group", -1))

\* `for cmd in cmds`
RECURSIVE cmds_loop(_, _, _, _)
cmds_loop(cmds, payload, base, w) ==
  IF cmds = <<>> THEN w
  ELSE
  LET cmd == Head(cmds) IN
  IF cmd.key = -1 \/ cmd.key # payload[2] THEN cmds_loop(Tail(cmds), payload, base, w)
  ELSE
  LET w1 == [add_field(w, "Command", cmd.help, cmd.key, base + 1)
               EXCEPT !.cursor = IF cmd.has_children THEN Append(@, base + 2) ELSE @]
      w2 == IF cmd.has_children THEN children_loop(cmd.children, payload, base, 2, w1) ELSE w1
  IN cmds_loop(Tail(cmds), payload, base, w2)

\* `for class in &self.zwc.cmd_class`, left at the first class with the key
RECURSIVE cmd_class_loop(_, _, _, _)
cmd_class_loop(cmd_class, payload, base, w) ==
  IF cmd_class = <<>> THEN w
  ELSE
  LET class == Head(cmd_class) IN
  IF class.key = -1 \/ class.key # payload[1] THEN cmd_class_loop(Tail(cmd_class), payload, base, w)
  ELSE
  LET w1 == [add_field(add_field(w, "CommandClass", class.help, class.key, base),
                       "CommandClassVersion", class.version, "string", -1)
               EXCEPT !.reads = Append(@, [start |-> base, end |-> base + 1])]
  IN IF Len(payload) < 2 THEN w1
     ELSE IF class.has_cmd
          THEN cmds_loop(class.cmd, payload, base,
                 [w1 EXCEPT !.reads = Append(@, [start |-> base + 1, end |-> base + 2])])
          ELSE w1

\* ZwParser::parse_bytes(&self, frame: &[u8]) -> ParsedFrame
ZwParser_parse_bytes(fd, zwc, frame, overflow_checks) ==
  LET w == base_headers_loop(fd.base_header, fd, frame, ParsedFrame_new(frame), overflow_checks)
      payload == SubSeq(frame, w.byte_counter + 1, Len(frame))
  IN IF w.panic \/ w.byte_counter >= Len(frame) THEN w
     ELSE cmd_class_loop(zwc.cmd_class, payload, w.byte_counter, w)

\* the parameters of a base header or header, and the entries of the
\* catalogue, as the descriptor files give them
BaseParam(name, bits) == [name |-> name, bits |-> bits, has_param |-> FALSE, param |-> <<>>]
BitsParam(name, bits, sub) == [name |-> name, bits |-> bits, has_param |-> TRUE, param |-> sub]
SubParam(name, bits) == [name |-> name, bits |-> bits]
HeaderParam(param_text, bits) == [param_text |-> param_text, bits |-> bits]
Param(name, param_type) == [kind |-> "Param", name |-> name, param_type |-> param_type]
VariantGroup(name) == [kind |-> "VariantGroup", name |-> name, param_type |-> ""]
Cmd(key, help, children) ==
  [key |-> key, help |-> help, has_children |-> TRUE, children |-> children]
CmdClass(key, help, cmd) ==
  [key |-> key, help |-> help, version |-> "1", has_cmd |-> TRUE, cmd |-> cmd]

\* the classic Z-Wave frame definition: base header "0" of HomeId, Source,
\* two bytes of bit fields and Length; the headers SINGLECAST and ACK
ClassicParams(properties1) ==
  <<BaseParam("HomeId", 32), BaseParam("Source", 8), properties1,
    BitsParam("Properties2", 8, <<SubParam("SequenceNumber", 4), SubParam("Reserved", 0),
                                  SubParam("Beam", 4)>>),
    BaseParam("Length", 8)>>

Properties1 ==
  BitsParam("Properties1", 8,
            <<SubParam("HeaderType", 4), SubParam("SpeedModified", 1), SubParam("LowPower", 1),
              SubParam("Ack", 1), SubParam("Routed", 1)>>)

FrameDefinitionWith(base_key, properties1, define_key) ==
  [base_header |-> <<[key |-> "2", name |-> "ZWaveLR", param |-> <<BaseParam("HomeId", 32)>>],
                     [key |-> base_key, name |-> "ZWave", param |-> ClassicParams(properties1)]>>,
   define_set |-> <<[name |-> "Speed", define |-> <<[key |-> 1, name |-> "40k"]>>],
                    [name |-> "HeaderType",
                     define |-> <<[key |-> define_key, name |-> "Singlecast"],
                                  [key |-> 3, name |-> "Ack"]>>]>>,
   header |-> <<[name |-> "SINGLECAST",
                 param |-> <<HeaderParam("Destination", 8), HeaderParam("Extension", 0)>>],
                [name |-> "ACK", param |-> <<HeaderParam("Destination", 8)>>]>>]

\* the frame definitions walked: the classic one; one without base header
\* "0"; one whose HeaderType define has a key that is no number; one whose
\* bit fields are declared on a parameter of 4 bits; one with a bit field
\* of 8 bits
FrameDefinitions ==
  {FrameDefinitionWith("0", Properties1, 1),
   FrameDefinitionWith("1", Properties1, 1),
   FrameDefinitionWith("0", Properties1, -1),
   FrameDefinitionWith("0", BitsParam("Properties1", 4, <<SubParam("HeaderType", 4)>>), 1),
   FrameDefinitionWith("0", BitsParam("Properties1", 8, <<SubParam("HeaderType", 8)>>), 1)}

\* the catalogue: BASIC_SET with one BYTE, MULTI_CHANNEL_CMD_ENCAP with two
\* STRUCT_BYTE before its BYTE parameters, a command with a WORD between
\* two BYTE and a variant group, a command and a class without children
ZwClasses ==
  [cmd_class |->
     <<[key |-> -1, help |-> "", version |-> "1", has_cmd |-> FALSE, cmd |-> <<>>],
       CmdClass(32, "COMMAND_CLASS_BASIC",
                <<Cmd(-1, "", <<>>),
                  Cmd(1, "BASIC_SET", <<Param("Value", "BYTE")>>),
                  [key |-> 2, help |-> "BASIC_GET", has_children |-> FALSE, children |-> <<>>]>>),
       CmdClass(96, "COMMAND_CLASS_MULTI_CHANNEL",
                <<Cmd(13, "MULTI_CHANNEL_CMD_ENCAP",
                      <<Param("Properties1", "STRUCT_BYTE"), Param("Properties2", "STRUCT_BYTE"),
                        Param("Command Class", "BYTE"), Param("Command", "BYTE"),
                        Param("Parameter", "VARIANT")>>)>>),
       CmdClass(50, "COMMAND_CLASS_METER",
                <<Cmd(2, "METER_REPORT",
                      <<Param("Scale", "BYTE"), Param("Meter Value", "WORD"),
                        Param("Delta Time", "BYTE"), VariantGroup("vg")>>)>>),
       [key |-> 90, help |-> "COMMAND_CLASS_DEVICE_RESET_LOCALLY", version |-> "1",
        has_cmd |-> FALSE, cmd |-> <<>>]>>]

\* a singlecast frame up to its destination, an ack, a frame of a header
\* type that is not defined
SinglecastHeader == <<201, 202, 203, 204, 5, 65, 7, 14, 9>>
AckHeader == <<201, 202, 203, 204, 5, 3, 7, 10, 9>>
OtherHeader == <<201, 202, 203, 204, 5, 2, 7, 10>>

\* what follows the header: a command class and command with parameters, a
\* class that is not in the catalogue
ZwPayloads ==
  {<<32, 1, 255>>, <<32, 2>>, <<32, 7, 1>>, <<96, 13, 17, 34, 32, 1, 255>>,
   <<50, 2, 4, 1, 44, 30>>, <<90, 1>>, <<119, 1, 2>>}

WholeZwFrames ==
  {h \o pl : h \in {SinglecastHeader, AckHeader, OtherHeader}, pl \in ZwPayloads}

\* the frames parsed: every frame above, whole and cut after any byte
ZwFrames == UNION {{SubSeq(f, 1, n) : n \in 0..Len(f)} : f \in WholeZwFrames}

\* a ZwParser over a frame definition and the catalogue, and the frame
\* passed to it; overflow_checks is the build
InitZw ==
  /\ ZnInit /\ PtiIdle /\ RtIdle /\ RunIdle /\ LibIdle
  /\ zlf = [open |-> FALSE, pos |-> 0, frame_counter |-> 0]
  /\ arg \in {[fn |-> "ZwParser", fd |-> fd, zwc |-> ZwClasses, frame |-> f,
               overflow_checks |-> b] :
              fd \in FrameDefinitions, f \in ZwFrames, b \in BOOLEAN}
  /\ ret = NoResult

\* zw_parser.parse_bytes(&frame)
ParseBytes ==
  /\ arg.fn = "ZwParser" /\ ret = NoResult
  /\ LET w == ZwParser_parse_bytes(arg.fd, arg.zwc, arg.frame, arg.overflow_checks) IN
     ret' = [kind |-> IF w.panic THEN "Panic" ELSE "ParsedFrame", op |-> "parse_bytes",
             fields |-> w.fields, reads |-> w.reads, cursor |-> w.cursor]
  /\ UNCHANGED <<arg, zlf, runVars, libVars, znVars, batchVars, ptiVars, rtVars>>

NextZw == ParseBytes

SpecZw == InitZw /\ [][NextZw]_vars

\* the number of bytes of a command parameter of a type of fixed width
ParamWidth(param_type) ==
  CASE param_type \in {"BYTE", "STRUCT_BYTE"} -> 1
    [] param_type = "WORD" -> 2

\* where the command class starts in the frame parsed: after the base
\* header and, for a header type that is defined, the destination
ZwBase == IF SubSeq(arg.frame, 1, 8) = OtherHeader THEN 8 ELSE 9

\* the command of the catalogue with the keys at ZwBase and ZwBase + 1
ZwCommandOf(frame) ==
  {cmd \in UNION {{class.cmd[i] : i \in 1..Len(class.cmd)} :
                    class \in {ZwClasses.cmd_class[k] : k \in 1..Len(ZwClasses.cmd_class)} \cap
                              {c \in {ZwClasses.cmd_class[k] : k \in 1..Len(ZwClasses.cmd_class)} :
                                 c.key = frame[ZwBase + 1]}} :
     cmd.key = frame[ZwBase + 2]}

\* the offset in the payload of child i of a command: 2 and the widths of
\* the parameters before it
RECURSIVE ParamOffset(_, _)
ParamOffset(children, i) ==
  IF i = 1 THEN 2
  ELSE ParamOffset(children, i - 1) +
       (IF children[i - 1].kind = "Param" /\ children[i - 1].param_type # "VARIANT"
        THEN ParamWidth(children[i - 1].param_type) ELSE 0)

\* C34 (as stated): with the classic frame definition, every parameter of
\* the command found, of type BYTE or not, whose bytes are in the frame has
\* a field of its name in the output, at its own position (after the
\* parameters before it); a BYTE parameter has the value of the byte at its
\* position.
C34_UnsupportedParamSurfaced ==
  (ret # NoResult /\ ret.op = "parse_bytes" /\ ret.kind = "ParsedFrame"
     /\ arg.fd = FrameDefinitionWith("0", Properties1, 1)
     /\ Len(arg.frame) >= 8 /\ Len(arg.frame) >= ZwBase + 2) =>
    \A cmd \in ZwCommandOf(arg.frame) :
      \A i \in 1..Len(cmd.children) :
        LET p == cmd.children[i]
            at == ZwBase + ParamOffset(cmd.children, i)
        IN (p.kind = "Param" /\ p.param_type # "VARIANT"
              /\ at + ParamWidth(p.param_type) <= Len(arg.frame)) =>
             \E k \in 1..Len(ret.fields) :
               /\ ret.fields[k].at = at
               /\ ret.fields[k].name = p.name
               /\ p.param_type = "BYTE" => ret.fields[k].value = arg.frame[at + 1]

\* C35 (as stated): for every frame and every schema parse_bytes returns
\* a ParsedFrame (with its RawFrame field at least); its byte counter starts
\* at 0 and never decreases, and every range of the frame it reads, for a
\* parameter or for the byte of its bit fields, lies inside the frame.
C35_WalkerStaysInFrame ==
  (ret # NoResult /\ ret.op = "parse_bytes") =>
    /\ ret.kind = "ParsedFrame"
    /\ ret.fields # <<>> /\ ret.fields[1].name = "RawFrame"
    /\ ret.cursor[1] = 0
    /\ \A i \in 1..(Len(ret.cursor) - 1) : ret.cursor[i] <= ret.cursor[i + 1]
    /\ \A i \in 1..Len(ret.cursor) : ret.cursor[i] <= Len(arg.frame)
    /\ \A i \in 1..Len(ret.reads) :
         /\ 0 <= ret.reads[i].start /\ ret.reads[i].start <= ret.reads[i].end
         /\ ret.reads[i].end <= Len(arg.frame)

-----------------------------------------------------------------------------
(* crates/tui/src/main.rs: the terminal viewer. App holds the ids of the   *)
(* frames of the capture file (items), the TableState whose selected row   *)
(* the keys move, and the mode. No key changes items: the push in App::add *)
(* is commented out.                                                       *)

\* most frames in the capture file the viewer opens
MaxItems == 3

\* usize::MAX, for the narrowest usize a Rust target has (16 bits)
USIZE_MAX == 65535

\* the page sizes run_app computes: terminal height - 3, saturating
PageSizes == {0, 2, 5}

\* the keys: one of each arm of handle_normal_mode_key and
\* handle_detail_mode_key, and a key of the `_` arm
KeyCodes ==
  {"q", "Esc", "Enter", "Down", "j", "Up", "k", "PageDown", "PageUp", "Home", "End",
   "n", "s", "S", "x"}

\* TableState::selected() when no row is selected
None == -1

\* a - b and a + b on usize: a panic with overflow checks when the result
\* leaves 0..usize::MAX, the wrapped result without them
usize_sub(a, b, overflow_checks) ==
  IF a >= b THEN [panic |-> FALSE, value |-> a - b]
  ELSE IF overflow_checks THEN [panic |-> TRUE, value |-> 0]
  ELSE [panic |-> FALSE, value |-> a - b + USIZE_MAX + 1]

usize_add(a, b, overflow_checks) ==
  IF a + b <= USIZE_MAX THEN [panic |-> FALSE, value |-> a + b]
  ELSE IF overflow_checks THEN [panic |-> TRUE, value |-> 0]
  ELSE [panic |-> FALSE, value |-> a + b - USIZE_MAX - 1]

\* self.state.select(Some(i)), and a panic in a key handler
select(a, i) == [a EXCEPT !.selected = i]
App_panic(a) == [a EXCEPT !.panicked = TRUE]

\* App::try_new: the frames of the file are pushed to items, row 0 is
\* selected whether or not there is one
App_try_new(len, overflow_checks) ==
  [running |-> TRUE, items |-> len, selected |-> 0, mode |-> "Normal",
   panicked |-> FALSE, exited |-> FALSE, overflow_checks |-> overflow_checks]

\* App::next
App_next(a) ==
  IF a.selected = None THEN select(a, 0)
  ELSE LET last == usize_sub(a.items, 1, a.overflow_checks) IN
       IF last.panic THEN App_panic(a)
       ELSE IF a.selected >= last.value THEN select(a, 0)
       ELSE select(a, a.selected + 1)

\* App::previous
App_previous(a) ==
  IF a.selected = None THEN select(a, 0)
  ELSE IF a.selected = 0
  THEN LET last == usize_sub(a.items, 1, a.overflow_checks) IN
       IF last.panic THEN App_panic(a) ELSE select(a, last.value)
  ELSE select(a, a.selected - 1)

\* App::page_down: (i + page_size).min(self.items.len() - 1)
App_page_down(a, page_size) ==
  IF a.selected = None THEN select(a, 0)
  ELSE LET sum == usize_add(a.selected, page_size, a.overflow_checks)
           last == usize_sub(a.items, 1, a.overflow_checks) IN
       IF sum.panic \/ last.panic THEN App_panic(a)
       ELSE select(a, IF sum.value < last.value THEN sum.value ELSE last.value)

\* App::page_up: i.saturating_sub(page_size)
App_page_up(a, page_size) ==
  IF a.selected = None THEN select(a, 0)
  ELSE select(a, IF a.selected > page_size THEN a.selected - page_size ELSE 0)

\* App::go_to_start, App::go_to_end
App_go_to_start(a) == select(a, 0)

App_go_to_end(a) ==
  IF a.items # 0 THEN select(a, a.items - 1) ELSE a

\* App::add: nothing is pushed, the last row is selected. App::start and
\* App::stop call add
App_add(a) ==
  LET last == usize_sub(a.items, 1, a.overflow_checks) IN
  IF last.panic THEN App_panic(a) ELSE select(a, last.value)

App_start(a) == App_add(a)
App_stop(a) == App_add(a)

\* App::toggle_detail
App_toggle_detail(a) ==
  [a EXCEPT !.mode = IF a.mode = "Normal" THEN "Detail" ELSE "Normal"]

\* App::handle_normal_mode_key; Ok(true) is the signal to exit
handle_normal_mode_key(a, key, page_size) ==
  CASE key \in {"q", "Esc"} -> [a EXCEPT !.exited = TRUE]
    [] key = "Enter" -> App_toggle_detail(a)
    [] key \in {"Down", "j"} -> App_next(a)
    [] key \in {"Up", "k"} -> App_previous(a)
    [] key = "PageDown" -> App_page_down(a, page_size)
    [] key = "PageUp" -> App_page_up(a, page_size)
    [] key = "Home" -> App_go_to_start(a)
    [] key = "End" -> App_go_to_end(a)
    [] key = "n" -> App_add(a)
    [] key = "s" -> App_start(a)
    [] key = "S" -> App_stop(a)
    [] OTHER -> a

\* App::handle_detail_mode_key
handle_detail_mode_key(a, key) ==
  CASE key \in {"q", "Esc", "Enter"} -> App_toggle_detail(a)
    [] key \in {"Down", "j"} -> App_next(a)
    [] key \in {"Up", "k"} -> App_previous(a)
    [] OTHER -> a

\* App::handle_key_event
handle_key_event(a, key, page_size) ==
  IF a.mode = "Normal" THEN handle_normal_mode_key(a, key, page_size)
  ELSE handle_detail_mode_key(a, key)

\* main: App::try_new(file) of a capture file with 0..MaxItems frames,
\* built with or without overflow checks
InitTui ==
  /\ ZnInit /\ PtiIdle /\ RtIdle /\ FnIdle /\ RunIdle
  /\ db = [rows |-> <<>>, added |-> <<>>]
  /\ library = {}
  /\ port = [rx |-> <<>>, returned |-> <<>>]
  /\ app \in {App_try_new(len, b) : len \in 0..MaxItems, b \in BOOLEAN}

\* run_app: a key press is read and handled; run_app returns when the
\* handler says so
KeyEvent(key, page_size) ==
  /\ app.running /\ ~app.panicked /\ ~app.exited
  /\ app' = handle_key_event(app, key, page_size)
  /\ UNCHANGED <<db, library, port, znVars, batchVars, ptiVars, rtVars, fnVars, runVars>>

NextTui == \E key \in KeyCodes, page_size \in PageSizes : KeyEvent(key, page_size)

SpecTui == InitTui /\ [][NextTui]_vars

\* C39: after any sequence of key events no key handler has failed,
\* whatever the size of the list, and the selected index is an index of
\* the list (0 <= selected < number of items) when the list has an item.
C39_SelectedIsValid ==
  app.running =>
    /\ ~app.panicked
    /\ app.items > 0 => (0 <= app.selected /\ app.selected < app.items)

====
